---- MODULE Spec2Model ----
(***************************************************************************)
(* A model of the Arx compiler front end (arxlang/pyarx): the character    *)
(* buffer (arx/io.py), the lexer (arx/lexer.py) and the recursive-descent  *)
(* parser (arx/parser.py).                                                 *)
(*                                                                         *)
(* A Python str is a sequence of one-character strings; the end-of-input   *)
(* marker returned by ArxBuffer.read is the empty string "".               *)
(***************************************************************************)
EXTENDS Integers, Sequences, FiniteSets, TLC

(***************************************************************************)
(* Bounds of the model.                                                    *)
(***************************************************************************)
MaxStr == 2        \* longest string handed to string_to_buffer / write
MaxBuf == 3        \* longest buffer content built by repeated write
MaxOverRead == 2   \* reads past the end of the buffer that are explored
MaxSrcLen == 3     \* longest enumerated source text given to the lexer
MaxEofs == 2       \* token requests explored once the input is exhausted
MaxOps == 3        \* most binary operators in a chain of plain operands
MaxPrecLen == 2    \* longest token list the precedence lookup is tried on
MaxIndent == 4     \* widest indentation of a source line
MaxBindings == 2   \* most bindings in a `var` expression
MaxItems == 3      \* most top-level items in a module
MaxParses == 2     \* most parses run by one Parser
MaxFiles == 2      \* most input files given to ArxMain.run
MaxTokens == 3     \* longest token list of any shape given to the parser
MaxReparseItems == 2   \* most items in a module parsed by a used Parser
MaxGenItems == 2   \* most top-level nodes lowered by the generators of a run

VARIABLES
    buffer,        \* ArxIO.buffer: [buffer : Seq(char), position : Nat]
    load,          \* history: the last string_to_buffer argument and the
                   \* values read() has returned since
    lex,           \* the Lexer class attributes and the global last_char
    emitted,       \* history: what each get_next_token call returned
                   \* (or that it raised), and the buffer cursor around it
    src,           \* the source text given to the parser, as its shape
                   \* and its tokens
    par,           \* the Parser: token list and cursor, indent_level, the
                   \* exception raised, the last value returned
    tree,          \* the nodes of the module Parser.parse is building
    phase,         \* where Parser.parse is: "ready", "loop", "returned",
                   \* "raised"
    call,          \* history: the last direct call of parse_bin_op_rhs
    earlier,       \* history: how the parses this Parser ran before the
                   \* current one ended
    main,          \* ArxMain and the ObjectGenerator it makes: the
                   \* arguments of run, where compile is, the paths written
    gen            \* the lowering visitor at work: the generator after
                   \* its last evaluate and the module it was given

vars ==
    <<buffer, load, lex, emitted, src, par, tree, phase, call, earlier, main, gen>>
ioVars == <<buffer, load, lex, emitted>>
parVars == <<src, par, tree, phase, call, earlier>>

(***************************************************************************)
(* arx/io.py : ArxBuffer                                                   *)
(***************************************************************************)
BufChars == {"a", "b"}

RECURSIVE StringsUpTo(_, _)
StringsUpTo(alphabet, n) ==
    IF n = 0 THEN {<<>>}
    ELSE LET shorter == StringsUpTo(alphabet, n - 1)
         IN  shorter \cup {Append(s, c) : s \in shorter, c \in alphabet}

\* ArxBuffer.clean
ArxBuffer_clean(b) == [buffer |-> <<>>, position |-> 0]

\* ArxBuffer.write: append the text, rewind the cursor
ArxBuffer_write(b, text) == [buffer |-> b.buffer \o text, position |-> 0]

\* ArxBuffer.read: the character under the cursor, "" on IndexError; the
\* cursor moves on either way (position is incremented before the indexing).
ArxBuffer_read(b) ==
    [b  |-> [b EXCEPT !.position = b.position + 1],
     ch |-> IF b.position < Len(b.buffer) THEN b.buffer[b.position + 1] ELSE ""]

\* a plausible slip: the buffer is not cleaned before the write
string_to_buffer_noclean(b, value) == ArxBuffer_write(b, value)

\* ArxIO.string_to_buffer
string_to_buffer(b, value) == ArxBuffer_write(ArxBuffer_clean(b), value)

(***************************************************************************)
(* arx/lexer.py : Token, SourceLocation, Lexer                             *)
(*                                                                         *)
(* A token returned by gettok is an integer: one of the negative codes of  *)
(* class Token, or the code point of a single character.                   *)
(***************************************************************************)
tok_eof == -1
tok_function == -2
tok_extern == -3
tok_return == -4
tok_identifier == -10
tok_float_literal == -11
tok_if == -20
tok_then == -21
tok_else == -22
tok_for == -23
tok_in == -24
tok_binary == -30
tok_unary == -31
tok_var == -40
tok_const == -41
tok_not_initialized == -9999

\* the characters of the model, by the str predicates the lexer applies
Letter == {"a", "b", "c", "e", "f", "i", "l", "n", "o", "r", "s", "t",
           "u", "v", "x", "y"}
Digit == {"0", "1", "2"}
Space == {" ", "\n", "\r", "\t"}

isspace(c) == c \in Space
isalpha(c) == c \in Letter
isdigit(c) == c \in Digit
isalnum(c) == isalpha(c) \/ isdigit(c)

\* ord() of the single characters that reach the last line of gettok
ord(c) ==
    CASE c = "(" -> 40
      [] c = ")" -> 41
      [] c = "+" -> 43
      [] c = ":" -> 58
      [] c = "=" -> 61

\* the end-of-input marker the lexer compares last_char with
EOF == ""

is_identifier_first_char(c) == isalpha(c) \/ c = "_"

is_identifier_char(c) == isalnum(c) \/ c = "_"

\* ArxIO.get_char with INPUT_FROM_STDIN = False: one read of ArxIO.buffer
get_char(b) == ArxBuffer_read(b)

\* bind the value a call returned: body(v), v computed once
With(v, body(_)) == CHOOSE r \in {body(w) : w \in {v}} : TRUE

\* Lexer.advance: read one character and move lex_loc over it.  L.ret is
\* the value returned.
advance(L) ==
    With(get_char(L.b), LAMBDA r :
    [L EXCEPT !.b = r.b,
              !.ret = r.ch,
              !.lex_loc = IF r.ch = "\n" \/ r.ch = "\r"
                          THEN [line |-> @.line + 1, col |-> 0]
                          ELSE [@ EXCEPT !.col = @ + 1]])

\* float(num_str): a ValueError unless the run has digits and at most one
\* ".".  The value is mant / 10^scale with trailing zeros removed.
DigitVal(c) == CASE c = "0" -> 0 [] c = "1" -> 1 [] c = "2" -> 2

RECURSIVE Normalize(_)
Normalize(v) ==
    IF v.scale > 0 /\ v.mant % 10 = 0
    THEN Normalize([mant |-> v.mant \div 10, scale |-> v.scale - 1])
    ELSE v

RECURSIVE FloatAcc(_, _, _, _)
FloatAcc(num_str, i, mant, scale) ==
    IF i > Len(num_str) THEN Normalize([mant |-> mant, scale |-> scale])
    ELSE IF num_str[i] = "."
         THEN FloatAcc(num_str, i + 1, mant, 0)
         ELSE FloatAcc(num_str, i + 1, mant * 10 + DigitVal(num_str[i]),
                       IF scale < 0 THEN scale ELSE scale + 1)

\* a plausible slip: any run that has a digit is taken for a number
float_ok_any_digit(num_str) ==
    \E i \in 1..Len(num_str) : isdigit(num_str[i])

float_ok(num_str) ==
    /\ Cardinality({i \in 1..Len(num_str) : num_str[i] = "."}) <= 1
    /\ \E i \in 1..Len(num_str) : isdigit(num_str[i])

float(num_str) ==
    LET v == FloatAcc(num_str, 1, 0, -1)
    IN  [mant |-> v.mant, scale |-> IF v.scale < 0 THEN 0 ELSE v.scale]

\* while last_char.isspace(): last_char = advance()
RECURSIVE SkipWhitespace(_)
SkipWhitespace(L) ==
    IF isspace(L.last_char)
    THEN With(advance(L), LAMBDA A :
         SkipWhitespace([A EXCEPT !.last_char = A.ret]))
    ELSE L

\* while is_identifier_char(last_char := advance()): identifier_str += ..
RECURSIVE ReadIdentifier(_)
ReadIdentifier(L) ==
    With(advance(L), LAMBDA A :
    IF is_identifier_char(A.ret)
    THEN ReadIdentifier([A EXCEPT !.last_char = A.ret,
                                  !.identifier_str = Append(@, A.ret)])
    ELSE [A EXCEPT !.last_char = A.ret])

\* while last_char.isdigit() or last_char == ".": num_str += last_char ..
RECURSIVE ReadNumber(_)
ReadNumber(L) ==
    IF isdigit(L.last_char) \/ L.last_char = "."
    THEN With(advance([L EXCEPT !.num_str = Append(@, L.last_char)]),
              LAMBDA A : ReadNumber([A EXCEPT !.last_char = A.ret]))
    ELSE L

\* while last_char != EOF and last_char != "\n" and last_char != "\r"
RECURSIVE SkipComment(_)
SkipComment(L) ==
    IF L.last_char # EOF /\ L.last_char # "\n" /\ L.last_char # "\r"
    THEN With(advance(L), LAMBDA A :
         SkipComment([A EXCEPT !.last_char = A.ret]))
    ELSE L

\* the keyword chain of gettok
KeywordTok(identifier_str) ==
    CASE identifier_str = <<"f", "n">> -> tok_function
      [] identifier_str = <<"r", "e", "t", "u", "r", "n">> -> tok_return
      [] identifier_str = <<"e", "x", "t", "e", "r", "n">> -> tok_extern
      [] identifier_str = <<"i", "f">> -> tok_if
      [] identifier_str = <<"e", "l", "s", "e">> -> tok_else
      [] identifier_str = <<"f", "o", "r">> -> tok_for
      [] identifier_str = <<"i", "n">> -> tok_in
      [] identifier_str = <<"b", "i", "n", "a", "r", "y">> -> tok_binary
      [] identifier_str = <<"u", "n", "a", "r", "y">> -> tok_unary
      [] identifier_str = <<"v", "a", "r">> -> tok_var
      [] OTHER -> tok_identifier

\* Lexer.gettok.  L.ret is the token returned; L.err is set when float()
\* raises.  cur_loc = lex_loc binds cur_loc to the very SourceLocation
\* object that advance() goes on mutating.
RECURSIVE gettok(_)

\* a plausible slip: the end of a comment is taken for the end of the input
gettok_comment_ends(L) ==
    With(SkipWhitespace(L), LAMBDA W :
    With([W EXCEPT !.cur_loc = "lex_loc"], LAMBDA S :
    IF is_identifier_first_char(S.last_char)
    THEN With(ReadIdentifier([S EXCEPT !.identifier_str = <<S.last_char>>]),
              LAMBDA I : [I EXCEPT !.ret = KeywordTok(I.identifier_str)])
    ELSE IF isdigit(S.last_char) \/ S.last_char = "."
    THEN With(ReadNumber([S EXCEPT !.num_str = <<>>]), LAMBDA N :
         IF float_ok(N.num_str)
         THEN [N EXCEPT !.num_float = float(N.num_str),
                        !.ret = tok_float_literal]
         ELSE [N EXCEPT !.err = TRUE, !.ret = tok_not_initialized])
    ELSE IF S.last_char = "#"
    THEN [SkipComment(S) EXCEPT !.ret = tok_eof]
    ELSE IF S.last_char = EOF
    THEN [S EXCEPT !.ret = tok_eof]
    ELSE With(advance(S), LAMBDA A :
         [A EXCEPT !.last_char = A.ret, !.ret = ord(S.last_char)])))

gettok(L) ==
    With(SkipWhitespace(L), LAMBDA W :
    With([W EXCEPT !.cur_loc = "lex_loc"], LAMBDA S :
    IF is_identifier_first_char(S.last_char)
    THEN With(ReadIdentifier([S EXCEPT !.identifier_str = <<S.last_char>>]),
              LAMBDA I : [I EXCEPT !.ret = KeywordTok(I.identifier_str)])
    ELSE IF isdigit(S.last_char) \/ S.last_char = "."
    THEN With(ReadNumber([S EXCEPT !.num_str = <<>>]), LAMBDA N :
         IF float_ok(N.num_str)
         THEN [N EXCEPT !.num_float = float(N.num_str),
                        !.ret = tok_float_literal]
         ELSE [N EXCEPT !.err = TRUE, !.ret = tok_not_initialized])
    ELSE IF S.last_char = "#"
    THEN With(SkipComment(S), LAMBDA T :
         IF T.last_char # EOF THEN gettok(T)
         ELSE [T EXCEPT !.ret = tok_eof])
    ELSE IF S.last_char = EOF
    THEN [S EXCEPT !.ret = tok_eof]
    ELSE With(advance(S), LAMBDA A :
         [A EXCEPT !.last_char = A.ret, !.ret = ord(S.last_char)])))

\* Lexer.get_tok_name
chr(tok) ==
    CASE tok = 40 -> "("
      [] tok = 41 -> ")"
      [] tok = 43 -> "+"
      [] tok = 58 -> ":"
      [] tok = 61 -> "="

get_tok_name(tok) ==
    CASE tok = tok_eof -> "eof"
      [] tok = tok_function -> "function"
      [] tok = tok_return -> "return"
      [] tok = tok_extern -> "extern"
      [] tok = tok_identifier -> "identifier"
      [] tok = tok_float_literal -> "float"
      [] tok = tok_if -> "if"
      [] tok = tok_then -> "then"
      [] tok = tok_else -> "else"
      [] tok = tok_for -> "for"
      [] tok = tok_in -> "in"
      [] tok = tok_binary -> "binary"
      [] tok = tok_unary -> "unary"
      [] tok = tok_var -> "var"
      [] tok = tok_const -> "const"
      [] OTHER -> chr(tok)

\* the lexer before its first token: the lookahead holds a blank, so the
\* first gettok starts by reading
LexStart ==
    [last_char |-> " ",
     lex_loc |-> [line |-> 0, col |-> 0],
     cur_loc |-> "unset",
     identifier_str |-> <<>>,
     num_float |-> [mant |-> 0, scale |-> 0],
     cur_tok |-> tok_not_initialized,
     err |-> FALSE]

\* Lexer.get_next_token: cur_tok = gettok().  When gettok raises, the
\* assignment does not happen.
get_next_token(L) ==
    With(gettok([L EXCEPT !.err = FALSE]), LAMBDA G :
    [G EXCEPT !.cur_tok = IF G.err THEN L.cur_tok ELSE G.ret])

(***************************************************************************)
(* Tokens and the token list the parser reads.  A token is a kind and a    *)
(* value: a name for an identifier, a number for a float literal, the      *)
(* count of leading spaces for an indent, the spelling for an operator or  *)
(* a keyword.                                                              *)
(***************************************************************************)
\* a token whose value is a str, and one whose value is a number (kept in
\* a field of its own: num)
Tok(kind, value) == [kind |-> kind, value |-> value, num |-> 0]
NumTok(kind, n) == [kind |-> kind, value |-> "", num |-> n]

Op(c) == Tok("operator", c)
Ident(name) == Tok("identifier", name)
Float(v) == NumTok("float_literal", v)
Indent(n) == NumTok("indent", n)
TokEOF == Tok("eof", "")

\* the kinds whose value is a number and not a str
NumberValued(tok) == tok.kind \in {"float_literal", "indent"}

\* Token.__eq__: kind and value
TokEq(a, b) == a.kind = b.kind /\ a.value = b.value /\ a.num = b.num

\* TokenList.get_next_token: cur_tok becomes the token under the cursor
\* and the cursor moves on; past the end it is EOF again and again
TokenList_get_next_token(P) ==
    IF P.position < Len(P.tokens)
    THEN [P EXCEPT !.cur_tok = P.tokens[P.position + 1],
                   !.position = P.position + 1]
    ELSE [P EXCEPT !.cur_tok = TokEOF]

(***************************************************************************)
(* AST nodes (arx/ast.py).  Source locations are left out: no decision of  *)
(* the parser reads them.                                                  *)
(***************************************************************************)
FloatExprAST(val) == [kind |-> "FloatExpr", val |-> val]
VariableExprAST(name, type_name) ==
    [kind |-> "VariableExpr", name |-> name, type_name |-> type_name]
UnaryExprAST(op_code, operand) ==
    [kind |-> "UnaryExpr", op_code |-> op_code, operand |-> operand]
BinaryExprAST(op, lhs, rhs) ==
    [kind |-> "BinaryExpr", op |-> op, lhs |-> lhs, rhs |-> rhs]
CallExprAST(callee, args) ==
    [kind |-> "CallExpr", callee |-> callee, args |-> args]
IfStmtAST(cond, then_, else_) ==
    [kind |-> "IfStmt", cond |-> cond, then_ |-> then_, else_ |-> else_]
ForStmtAST(var_name, start, end, step, body) ==
    [kind |-> "ForStmt", var_name |-> var_name, start |-> start,
     end |-> end, step |-> step, body |-> body]
VarExprAST(var_names, type_name, body) ==
    [kind |-> "VarExpr", var_names |-> var_names, type_name |-> type_name,
     body |-> body]
PrototypeAST(name, type_name, args) ==
    [kind |-> "Prototype", name |-> name, type_name |-> type_name,
     args |-> args]
FunctionAST(proto, body) ==
    [kind |-> "Function", proto |-> proto, body |-> body]
ReturnStmtAST(value) == [kind |-> "ReturnStmt", value |-> value]
BlockAST(nodes) == [kind |-> "Block", nodes |-> nodes]
ModuleAST(name, nodes) == [kind |-> "Module", name |-> name, nodes |-> nodes]

NoNode == [kind |-> "None"]

(***************************************************************************)
(* arx/parser.py : Parser.  The parser state P is the token list and its   *)
(* cursor, indent_level, the exception in flight (err, "" when none) and   *)
(* the value returned by the last call (node).  A call made while an       *)
(* exception is in flight does nothing: the exception propagates.          *)
(***************************************************************************)
INDENT_SIZE == 2

\* a plausible slip: `*` given the precedence of `+`
bin_op_precedence_flat ==
    [op \in {"=", "<", ">", "+", "-", "*"} |->
        CASE op = "=" -> 2 [] op = "<" -> 10 [] op = ">" -> 10
          [] op = "+" -> 20 [] op = "-" -> 20 [] op = "*" -> 20]

\* Parser.__init__: bin_op_precedence
bin_op_precedence ==
    [op \in {"=", "<", ">", "+", "-", "*"} |->
        CASE op = "=" -> 2 [] op = "<" -> 10 [] op = ">" -> 10
          [] op = "+" -> 20 [] op = "-" -> 20 [] op = "*" -> 40]

\* raise exc(msg): the exception is built from a message alone, no raise
\* of the parser hands it the location of a token
NoLocation == "none"
Raise(P, exc) ==
    [P EXCEPT !.err = exc, !.err_location = NoLocation, !.node = NoNode]
Return(P, node) == [P EXCEPT !.node = node]
Eat(P) == TokenList_get_next_token(P)

\* a plausible slip: a token outside the table is given precedence 0
get_tok_precedence_zero(P) ==
    IF ~NumberValued(P.cur_tok) /\ P.cur_tok.value \in DOMAIN bin_op_precedence
    THEN bin_op_precedence[P.cur_tok.value]
    ELSE 0

\* Parser.get_tok_precedence: bin_op_precedence.get(cur_tok.value, -1)
get_tok_precedence(P) ==
    IF ~NumberValued(P.cur_tok) /\ P.cur_tok.value \in DOMAIN bin_op_precedence
    THEN bin_op_precedence[P.cur_tok.value]
    ELSE -1

RECURSIVE parse_primary(_), parse_block(_), BlockLoop(_, _, _),
          parse_expression(_), parse_if_stmt(_), parse_paren_expr(_),
          parse_identifier_expr(_), CallArgs(_, _), parse_for_stmt(_),
          parse_var_expr(_), VarLoop(_, _), parse_unary(_),
          parse_bin_op_rhs(_, _, _), parse_return_function(_)

\* Parser.parse_float_expr
parse_float_expr(P) == Return(Eat(P), FloatExprAST(P.cur_tok.num))

\* Parser.parse_primary
parse_primary(P) ==
    LET k == P.cur_tok.kind
    IN  IF k = "identifier" THEN parse_identifier_expr(P)
        ELSE IF k = "float_literal" THEN parse_float_expr(P)
        ELSE IF TokEq(P.cur_tok, Op("(")) THEN parse_paren_expr(P)
        ELSE IF k = "kw_if" THEN parse_if_stmt(P)
        ELSE IF k = "kw_for" THEN parse_for_stmt(P)
        ELSE IF k = "kw_var" THEN parse_var_expr(P)
        ELSE IF TokEq(P.cur_tok, Op(";")) THEN parse_primary(Eat(P))
        ELSE IF k = "kw_return" THEN parse_return_function(P)
        ELSE IF k = "indent" THEN parse_block(P)
        ELSE Raise(Eat(P), "Exception")

\* the loop of parse_block: parse an expression, then look at the token
\* that follows it
BlockLoop(P, cur_indent, nodes) ==
    With(parse_expression(P), LAMBDA E :
    IF E.err # "" THEN E
    ELSE IF E.cur_tok.kind # "indent" THEN Return(E, Append(nodes, E.node))
    ELSE IF E.cur_tok.num < cur_indent THEN Return(E, Append(nodes, E.node))
    ELSE IF E.cur_tok.num > cur_indent THEN Raise(E, "ParserException")
    ELSE BlockLoop(Eat(E), cur_indent, Append(nodes, E.node)))

\* Parser.parse_block.  cur_indent is the value of whatever token is
\* current: comparing a str with indent_level is False for == and a
\* TypeError for >.
parse_block(P) ==
    LET cur_indent == P.cur_tok.num
        E == Eat(P)
    IN  IF ~NumberValued(P.cur_tok) THEN Raise(E, "TypeError")
        ELSE IF cur_indent = P.indent_level THEN Raise(E, "ParserException")
        ELSE IF cur_indent > P.indent_level
        THEN With(BlockLoop([E EXCEPT !.indent_level = cur_indent],
                            cur_indent, <<>>), LAMBDA B :
             IF B.err # "" THEN B
             ELSE [B EXCEPT !.indent_level = @ - INDENT_SIZE,
                            !.node = BlockAST(B.node)])
        ELSE [E EXCEPT !.indent_level = @ - INDENT_SIZE,
                       !.node = BlockAST(<<>>)]

\* Parser.parse_expression
parse_expression(P) ==
    With(parse_unary(P), LAMBDA U :
    IF U.err # "" THEN U ELSE parse_bin_op_rhs(U, 0, U.node))

\* Parser.parse_if_stmt
parse_if_stmt(P) ==
    With(parse_expression(Eat(P)), LAMBDA C :
    IF C.err # "" THEN C
    ELSE IF ~TokEq(C.cur_tok, Op(":")) THEN Raise(C, "Exception")
    ELSE With(parse_block(Eat(C)), LAMBDA T :
    IF T.err # "" THEN T
    ELSE With(IF T.cur_tok.kind = "indent" THEN Eat(T) ELSE T, LAMBDA T1 :
    IF T1.cur_tok.kind # "kw_else"
    THEN Return(T1, IfStmtAST(C.node, T.node, BlockAST(<<>>)))
    ELSE With(Eat(T1), LAMBDA L :
    IF ~TokEq(L.cur_tok, Op(":")) THEN Raise(L, "Exception")
    ELSE With(parse_block(Eat(L)), LAMBDA B :
    IF B.err # "" THEN B
    ELSE Return(B, IfStmtAST(C.node, T.node, B.node)))))))

\* Parser.parse_paren_expr
parse_paren_expr(P) ==
    With(parse_expression(Eat(P)), LAMBDA E :
    IF E.err # "" THEN E
    ELSE IF ~TokEq(E.cur_tok, Op(")")) THEN Raise(E, "Exception")
    ELSE Return(Eat(E), E.node))

\* the argument loop of parse_identifier_expr
CallArgs(P, args) ==
    With(parse_expression(P), LAMBDA E :
    IF E.err # "" THEN E
    ELSE IF TokEq(E.cur_tok, Op(")")) THEN Return(E, Append(args, E.node))
    ELSE IF ~TokEq(E.cur_tok, Op(",")) THEN Raise(E, "Exception")
    ELSE CallArgs(Eat(E), Append(args, E.node)))

\* Parser.parse_identifier_expr
parse_identifier_expr(P) ==
    LET id_name == P.cur_tok.value
        N == Eat(P)
    IN  IF ~TokEq(N.cur_tok, Op("("))
        THEN Return(N, VariableExprAST(id_name, "float"))
        ELSE With(Eat(N), LAMBDA O :
             With(IF ~TokEq(O.cur_tok, Op(")"))
                  THEN CallArgs(O, <<>>)
                  ELSE Return(O, <<>>), LAMBDA A :
             IF A.err # "" THEN A
             ELSE Return(Eat(A), CallExprAST(id_name, A.node))))

\* a plausible slip: the step left out of the source defaults to 0.0
parse_for_stmt_zero_step(P) ==
    With(Eat(P), LAMBDA F :
    IF F.cur_tok.kind # "identifier" THEN Raise(F, "Exception")
    ELSE With(Eat(F), LAMBDA I :
    IF ~TokEq(I.cur_tok, Op("=")) THEN Raise(I, "Exception")
    ELSE With(parse_expression(Eat(I)), LAMBDA S :
    IF S.err # "" THEN S
    ELSE IF ~TokEq(S.cur_tok, Op(",")) THEN Raise(S, "Exception")
    ELSE With(parse_expression(Eat(S)), LAMBDA E :
    IF E.err # "" THEN E
    ELSE With(IF TokEq(E.cur_tok, Op(","))
              THEN parse_expression(Eat(E))
              ELSE Return(E, FloatExprAST(0)), LAMBDA T :
    IF T.err # "" THEN T
    ELSE IF T.cur_tok.kind # "kw_in" THEN Raise(T, "Exception")
    ELSE With(parse_expression(Eat(T)), LAMBDA B :
    IF B.err # "" THEN B
    ELSE Return(B, ForStmtAST(F.cur_tok.value, S.node, E.node, T.node,
                              BlockAST(<<B.node>>)))))))))

\* Parser.parse_for_stmt
parse_for_stmt(P) ==
    With(Eat(P), LAMBDA F :
    IF F.cur_tok.kind # "identifier" THEN Raise(F, "Exception")
    ELSE With(Eat(F), LAMBDA I :
    IF ~TokEq(I.cur_tok, Op("=")) THEN Raise(I, "Exception")
    ELSE With(parse_expression(Eat(I)), LAMBDA S :
    IF S.err # "" THEN S
    ELSE IF ~TokEq(S.cur_tok, Op(",")) THEN Raise(S, "Exception")
    ELSE With(parse_expression(Eat(S)), LAMBDA E :
    IF E.err # "" THEN E
    ELSE With(IF TokEq(E.cur_tok, Op(","))
              THEN parse_expression(Eat(E))
              ELSE Return(E, FloatExprAST(1)), LAMBDA T :
    IF T.err # "" THEN T
    ELSE IF T.cur_tok.kind # "kw_in" THEN Raise(T, "Exception")
    ELSE With(parse_expression(Eat(T)), LAMBDA B :
    IF B.err # "" THEN B
    ELSE Return(B, ForStmtAST(F.cur_tok.value, S.node, E.node, T.node,
                              BlockAST(<<B.node>>)))))))))

\* a plausible slip: each binding is put in front of the earlier ones
VarLoop_prepend(P, var_names) ==
    With(Eat(P), LAMBDA N :
    With(IF TokEq(N.cur_tok, Op("="))
         THEN parse_expression(Eat(N))
         ELSE Return(N, FloatExprAST(0)), LAMBDA I :
    IF I.err # "" THEN I
    ELSE With(<<<<P.cur_tok.value, I.node>>>> \o var_names, LAMBDA grown :
    IF ~TokEq(I.cur_tok, Op(",")) THEN Return(I, grown)
    ELSE With(Eat(I), LAMBDA C :
    IF C.cur_tok.kind # "identifier" THEN Raise(C, "Exception")
    ELSE VarLoop(C, grown)))))

\* the loop of parse_var_expr, entered on an identifier
VarLoop(P, var_names) ==
    With(Eat(P), LAMBDA N :
    With(IF TokEq(N.cur_tok, Op("="))
         THEN parse_expression(Eat(N))
         ELSE Return(N, FloatExprAST(0)), LAMBDA I :
    IF I.err # "" THEN I
    ELSE With(Append(var_names, <<P.cur_tok.value, I.node>>), LAMBDA grown :
    IF ~TokEq(I.cur_tok, Op(",")) THEN Return(I, grown)
    ELSE With(Eat(I), LAMBDA C :
    IF C.cur_tok.kind # "identifier" THEN Raise(C, "Exception")
    ELSE VarLoop(C, grown)))))

\* Parser.parse_var_expr
parse_var_expr(P) ==
    With(Eat(P), LAMBDA V :
    IF V.cur_tok.kind # "identifier" THEN Raise(V, "Exception")
    ELSE With(VarLoop(V, <<>>), LAMBDA L :
    IF L.err # "" THEN L
    ELSE IF L.cur_tok.kind # "kw_in" THEN Raise(L, "Exception")
    ELSE With(parse_expression(Eat(L)), LAMBDA B :
    IF B.err # "" THEN B
    ELSE Return(B, VarExprAST(L.node, "float", B.node)))))

\* Parser.parse_unary: every operator token but `(` and `,` is read as a
\* unary operator
parse_unary(P) ==
    IF P.cur_tok.kind # "operator" \/ P.cur_tok.value \in {"(", ","}
    THEN parse_primary(P)
    ELSE With(parse_unary(Eat(P)), LAMBDA O :
         IF O.err # "" THEN O
         ELSE Return(O, UnaryExprAST(P.cur_tok.value, O.node)))

\* a plausible slip: the pending operator takes rhs also at equal
\* precedence, which groups to the right
parse_bin_op_rhs_right(P, expr_prec, lhs) ==
    With(get_tok_precedence(P), LAMBDA cur_prec :
    IF cur_prec < expr_prec THEN Return(P, lhs)
    ELSE With(parse_unary(Eat(P)), LAMBDA R :
    IF R.err # "" THEN R
    ELSE With(IF cur_prec <= get_tok_precedence(R)
              THEN parse_bin_op_rhs(R, cur_prec, R.node)
              ELSE R, LAMBDA R2 :
    IF R2.err # "" THEN R2
    ELSE parse_bin_op_rhs(R2, expr_prec,
                          BinaryExprAST(P.cur_tok.value, lhs, R2.node)))))

\* Parser.parse_bin_op_rhs
parse_bin_op_rhs(P, expr_prec, lhs) ==
    With(get_tok_precedence(P), LAMBDA cur_prec :
    IF cur_prec < expr_prec THEN Return(P, lhs)
    ELSE With(parse_unary(Eat(P)), LAMBDA R :
    IF R.err # "" THEN R
    ELSE With(IF cur_prec < get_tok_precedence(R)
              THEN parse_bin_op_rhs(R, cur_prec + 1, R.node)
              ELSE R, LAMBDA R2 :
    IF R2.err # "" THEN R2
    ELSE parse_bin_op_rhs(R2, expr_prec,
                          BinaryExprAST(P.cur_tok.value, lhs, R2.node)))))

\* Parser.parse_return_function
parse_return_function(P) ==
    With(parse_expression(Eat(P)), LAMBDA E :
    IF E.err # "" THEN E ELSE Return(E, ReturnStmtAST(E.node)))

\* while get_next_token().kind == identifier: args.append(..);
\*     if get_next_token() != ",": break
RECURSIVE PrototypeArgs(_, _)
PrototypeArgs(P, args) ==
    With(Eat(P), LAMBDA N :
    IF N.cur_tok.kind # "identifier" THEN Return(N, args)
    ELSE With(Append(args, VariableExprAST(N.cur_tok.value, "float")),
              LAMBDA grown :
    With(Eat(N), LAMBDA M :
    IF ~TokEq(M.cur_tok, Op(",")) THEN Return(M, grown)
    ELSE PrototypeArgs(M, grown))))

\* Parser.parse_extern_prototype
parse_extern_prototype(P) ==
    IF P.cur_tok.kind # "identifier" THEN Raise(P, "Exception")
    ELSE With(Eat(P), LAMBDA N :
    IF ~TokEq(N.cur_tok, Op("(")) THEN Raise(N, "Exception")
    ELSE With(PrototypeArgs(N, <<>>), LAMBDA A :
    IF ~TokEq(A.cur_tok, Op(")")) THEN Raise(A, "Exception")
    ELSE Return(Eat(A), PrototypeAST(P.cur_tok.value, "float", A.node))))

\* Parser.parse_prototype: as above, then the `:`
parse_prototype(P) ==
    IF P.cur_tok.kind # "identifier" THEN Raise(P, "Exception")
    ELSE With(Eat(P), LAMBDA N :
    IF ~TokEq(N.cur_tok, Op("(")) THEN Raise(N, "Exception")
    ELSE With(PrototypeArgs(N, <<>>), LAMBDA A :
    IF ~TokEq(A.cur_tok, Op(")")) THEN Raise(A, "Exception")
    ELSE With(Eat(A), LAMBDA C :
    IF ~TokEq(C.cur_tok, Op(":")) THEN Raise(C, "Exception")
    ELSE Return(Eat(C), PrototypeAST(P.cur_tok.value, "float", A.node)))))

\* Parser.parse_function
parse_function(P) ==
    With(parse_prototype(Eat(P)), LAMBDA proto :
    IF proto.err # "" THEN proto
    ELSE With(parse_block(proto), LAMBDA body :
    IF body.err # "" THEN body
    ELSE Return(body, FunctionAST(proto.node, body.node))))

\* Parser.parse_extern
parse_extern(P) == parse_extern_prototype(Eat(P))

\* Parser.__init__ with a token list
Parser(tokens) ==
    [tokens |-> tokens, position |-> 0,
     cur_tok |-> Tok("not_initialized", ""),
     indent_level |-> 0, err |-> "", err_location |-> NoLocation,
     node |-> NoNode]

\* a plausible slip: indent_level is left as the last parse left it
parse_begin_keep_indent(P, tokens) ==
    LET C == [P EXCEPT !.tokens = tokens,
                       !.position = 0,
                       !.cur_tok = Tok("not_initialized", ""),
                       !.err = "", !.err_location = NoLocation,
                       !.node = NoNode]
        N == Eat(C)
    IN  IF N.cur_tok.kind = "not_initialized" THEN Eat(N) ELSE N

\* Parser.clean followed by self.tokens = tokens and the priming of the
\* lookahead in Parser.parse
parse_begin(P, tokens) ==
    LET C == [P EXCEPT !.indent_level = 0, !.tokens = tokens,
                       !.position = 0,
                       !.cur_tok = Tok("not_initialized", ""),
                       !.err = "", !.err_location = NoLocation,
                       !.node = NoNode]
        N == Eat(C)
    IN  IF N.cur_tok.kind = "not_initialized" THEN Eat(N) ELSE N

\* the loop of Parser.parse, run to its end: the nodes appended so far
\* are returned at EOF, or the exception of an item leaves the loop
RECURSIVE ParseLoop(_, _)
ParseLoop(P, nodes) ==
    IF P.cur_tok.kind = "eof" THEN Return(P, nodes)
    ELSE IF TokEq(P.cur_tok, Op(";")) THEN ParseLoop(Eat(P), nodes)
    ELSE With(IF P.cur_tok.kind = "kw_function" THEN parse_function(P)
              ELSE IF P.cur_tok.kind = "kw_extern" THEN parse_extern(P)
              ELSE parse_expression(P), LAMBDA R :
         IF R.err # "" THEN R ELSE ParseLoop(R, Append(nodes, R.node)))

\* Parser.parse(tokens) as one call: node is the list of the module's
\* nodes, err the exception that left it
parse(P, tokens) == ParseLoop(parse_begin(P, tokens), <<>>)

(***************************************************************************)
(* arx/codegen/base.py, arx/codegen/file_object.py : ObjectGenerator, the  *)
(* lowering visitor.  llvmlite is kept as what the visitor does with it:   *)
(* an IR value is a record, the module is its globals and the instructions *)
(* emitted in order, a function is the blocks appended to it.  A float is  *)
(* the integer of the same value.  The generator state G also carries the  *)
(* exception in flight (err, "" when none) and the value the last call     *)
(* returned (ret).                                                         *)
(***************************************************************************)
IRValue(v, id, name, items) ==
    [v |-> v, id |-> id, name |-> name, items |-> items]
NoneValue == IRValue("None", 0, "", <<>>)
Constant(typ, c) == IRValue("Constant", c, typ, <<>>)
IRFunction(name, nargs) == IRValue("Function", nargs, name, <<>>)
IRInstr(i, name) == IRValue("Instr", i, name, <<>>)
IRBlock(n, label) == IRValue("Block", n, label, <<>>)
IRArgument(i, name) == IRValue("Argument", i, name, <<>>)
ListValue(items) == IRValue("List", 0, "", items)

\* Python truth of a value a visit left: None and the empty list are false
Truthy(x) == ~(x.v = "None" \/ (x.v = "List" /\ x.items = <<>>))

NoBlock == IRBlock(0, "")

\* dict.get(name)
dict_get(d, name) == IF name \in DOMAIN d THEN d[name] ELSE NoneValue
\* d[name] = value
dict_set(d, name, value) ==
    [k \in DOMAIN d \cup {name} |-> IF k = name THEN value ELSE d[k]]
\* d.pop(name, None)
dict_pop(d, name) == [k \in DOMAIN d \ {name} |-> d[k]]
EmptyDict == [k \in {} |-> NoneValue]

GenRaise(G, exc) == [G EXCEPT !.err = exc, !.ret = NoneValue]
Returning(G, value) == IF G.err # "" THEN G ELSE [G EXCEPT !.ret = value]
\* the rest of a method, skipped when an exception is in flight
Try(G, rest(_)) == With(G, LAMBDA H : IF H.err # "" THEN H ELSE rest(H))

\* IRBuilder.<op>(...): the instruction goes to the end of the module's
\* text, in the block the builder is positioned at; its value is returned
Emit(G, op, args, name) ==
    [G EXCEPT !.ir = Append(@, [op |-> op, args |-> args, block |-> G.block,
                                name |-> name]),
              !.ret = IRInstr(Len(G.ir) + 1, name)]

\* function.append_basic_block(label) / basic_blocks.append(ir.Block(..))
NewBlock(G, label) == IRBlock(G.nblocks + 1, label)
MakeBlock(G) == [G EXCEPT !.nblocks = @ + 1]
AppendBlock(G, bb) == [G EXCEPT !.blocks = Append(@, bb)]
position_at(G, bb) == [G EXCEPT !.block = bb]

\* self.result_stack.append(value)
Push(G, value) == [G EXCEPT !.result_stack = Append(@, value)]
\* self.result_stack.pop(), the value in G.ret
Pop(G) ==
    IF G.err # "" THEN G
    ELSE IF G.result_stack = <<>>
    THEN GenRaise(G, "IndexError: pop from empty list")
    ELSE [G EXCEPT !.result_stack = SubSeq(@, 1, Len(@) - 1),
                   !.ret = G.result_stack[Len(G.result_stack)]]

\* ObjectGenerator._add_builtins: putchar and putchard in the module
Builtins ==
    [name \in {"putchar", "putchard"} |-> IRFunction(name, 1)]

\* ObjectGenerator.__init__ with CodeGenLLVMBase.initialize.  named_values
\* is an attribute of the class CodeGenLLVMBase: an instance starts with
\* the dict the instances before it left.
NewObjectGenerator(named_values) ==
    [result_stack |-> <<>>,
     named_values |-> named_values,
     function_protos |-> EmptyDict,
     globals |-> Builtins,
     ir |-> <<>>,
     blocks |-> <<>>,
     nblocks |-> 0,
     block |-> NoBlock,
     err |-> "",
     ret |-> NoneValue,
     visits |-> <<>>]

RECURSIVE visit(_, _)
RECURSIVE block_nodes(_, _, _, _)
RECURSIVE call_args(_, _, _, _)

\* ObjectGenerator.get_function: returns None on each path
get_function(G, name) ==
    IF name \in DOMAIN G.globals
    THEN Returning(Push(G, G.globals[name]), NoneValue)
    ELSE IF name \in DOMAIN G.function_protos
    THEN Returning(visit(G, G.function_protos[name]), NoneValue)
    ELSE Returning(G, NoneValue)

\* ObjectGenerator.create_entry_block_alloca
create_entry_block_alloca(G, var_name, type_name) ==
    Emit(G, "alloca", <<>>, var_name)

visit_float_expr(G, expr) == Push(G, Constant("float", expr.val))

visit_variable_expr(G, expr) ==
    With(dict_get(G.named_values, expr.name), LAMBDA expr_var :
    IF ~Truthy(expr_var) THEN GenRaise(G, "Unknown variable name")
    ELSE With(Emit(G, "load", <<expr_var>>, expr.name), LAMBDA G1 :
         Push(G1, G1.ret)))

visit_unary_expr(G, expr) ==
    Try(Pop(visit(G, expr.operand)), LAMBDA G1 :
    With(G1.ret, LAMBDA operand_value :
    IF ~Truthy(operand_value)
    THEN GenRaise(G1, "ObjectGen: Empty unary operand.")
    ELSE Try(get_function(G1, "unary" \o expr.op_code), LAMBDA G2 :
         IF ~Truthy(G2.ret) THEN GenRaise(G2, "Unknown unary operator")
         ELSE With(Emit(G2, "call", <<G2.ret, operand_value>>, "unop"),
                   LAMBDA G3 : Push(G3, G3.ret)))))

BinaryBuiltin(G, op, lhs, rhs) ==
    IF op = "+" THEN With(Emit(G, "fadd", <<lhs, rhs>>, "addtmp"),
                          LAMBDA G1 : Push(G1, G1.ret))
    ELSE IF op = "-" THEN With(Emit(G, "fsub", <<lhs, rhs>>, "subtmp"),
                               LAMBDA G1 : Push(G1, G1.ret))
    ELSE IF op = "*" THEN With(Emit(G, "fmul", <<lhs, rhs>>, "multmp"),
                               LAMBDA G1 : Push(G1, G1.ret))
    ELSE With(Emit(G, "fcmp_unordered " \o op, <<lhs, rhs>>,
                   IF op = "<" THEN "lttmp" ELSE "gttmp"), LAMBDA G1 :
         With(Emit(G1, "uitofp", <<G1.ret>>, "booltmp"), LAMBDA G2 :
         Push(G2, G2.ret)))

visit_binary_expr(G, expr) ==
    IF expr.op = "="
    THEN IF expr.lhs.kind # "VariableExpr"
         THEN GenRaise(G, "destination of '=' must be a variable")
         ELSE Try(Pop(visit(G, expr.rhs)), LAMBDA G1 :
              With(G1.ret, LAMBDA llvm_rhs :
              IF ~Truthy(llvm_rhs)
              THEN GenRaise(G1, "codegen: Invalid rhs expression.")
              ELSE IF expr.lhs.name \notin DOMAIN G1.named_values
              THEN GenRaise(G1, "KeyError")
              ELSE With(G1.named_values[expr.lhs.name], LAMBDA llvm_lhs :
                   IF ~Truthy(llvm_lhs)
                   THEN GenRaise(G1, "codegen: Invalid lhs variable name")
                   ELSE Push(Emit(G1, "store", <<llvm_rhs, llvm_lhs>>, ""),
                             llvm_rhs))))
    ELSE Try(Pop(visit(G, expr.lhs)), LAMBDA G1 :
         With(G1.ret, LAMBDA llvm_lhs :
         Try(Pop(visit(G1, expr.rhs)), LAMBDA G2 :
         With(G2.ret, LAMBDA llvm_rhs :
         IF ~Truthy(llvm_lhs) \/ ~Truthy(llvm_rhs)
         THEN GenRaise(G2, "codegen: Invalid lhs/rhs")
         ELSE IF expr.op \in {"+", "-", "*", "<", ">"}
         THEN BinaryBuiltin(G2, expr.op, llvm_lhs, llvm_rhs)
         ELSE Try(get_function(G2, "binary" \o expr.op), LAMBDA G3 :
              With(Emit(G3, "call", <<G3.ret, llvm_lhs, llvm_rhs>>, "binop"),
                   LAMBDA G4 : Push(G4, G4.ret)))))))

\* the loop of visit_block from node i on, result the values popped so far
block_nodes(G, nodes, i, result) ==
    IF G.err # "" THEN G
    ELSE IF i > Len(nodes) THEN Push(G, ListValue(result))
    ELSE Try(Pop(visit(G, nodes[i])), LAMBDA G1 :
         block_nodes(G1, nodes, i + 1, Append(result, G1.ret)))

visit_block(G, expr) == block_nodes(G, expr.nodes, 1, <<>>)

\* the loop of visit_call_expr over expr.args
call_args(G, args, i, llvm_args) ==
    IF G.err # "" THEN G
    ELSE IF i > Len(args) THEN Returning(G, ListValue(llvm_args))
    ELSE Try(Pop(visit(G, args[i])), LAMBDA G1 :
         IF ~Truthy(G1.ret)
         THEN GenRaise(G1, "codegen: Invalid callee argument.")
         ELSE call_args(G1, args, i + 1, Append(llvm_args, G1.ret)))

visit_call_expr(G, expr) ==
    Try(get_function(G, expr.callee), LAMBDA G1 :
    With(G1.ret, LAMBDA callee_f :
    IF ~Truthy(callee_f) THEN GenRaise(G1, "Unknown function referenced")
    ELSE IF callee_f.id # Len(expr.args)
    THEN GenRaise(G1, "codegen: Incorrect # arguments passed.")
    ELSE Try(call_args(G1, expr.args, 1, <<>>), LAMBDA G2 :
         With(Emit(G2, "call", <<callee_f>> \o G2.ret.items, "calltmp"),
              LAMBDA G3 : Push(G3, G3.ret)))))

visit_if_stmt(G, expr) ==
    Try(Pop(visit(G, expr.cond)), LAMBDA G1 :
    IF ~Truthy(G1.ret)
    THEN GenRaise(G1, "codegen: Invalid condition expression.")
    ELSE
    With(Emit(G1, "fcmp_ordered !=", <<G1.ret, Constant("float", 0)>>, ""),
         LAMBDA G2 :
    With(G2.ret, LAMBDA cond_v :
    With(IRBlock(G2.nblocks + 1, "then"), LAMBDA then_bb :
    With(IRBlock(G2.nblocks + 2, "else"), LAMBDA else_bb :
    With(IRBlock(G2.nblocks + 3, "ifcont"), LAMBDA merge_bb :
    With(Emit(AppendBlock([G2 EXCEPT !.nblocks = @ + 3], then_bb),
              "cbranch", <<cond_v, then_bb, else_bb>>, ""), LAMBDA G3 :
    Try(Pop(visit(position_at(G3, then_bb), expr.then_)), LAMBDA G4 :
    With(G4.ret, LAMBDA then_v :
    IF ~Truthy(then_v)
    THEN GenRaise(G4, "codegen: Then expression is invalid.")
    ELSE
    With(Emit(G4, "branch", <<merge_bb>>, ""), LAMBDA G5 :
    With(G5.block, LAMBDA then_end :
    Try(Pop(visit(position_at(AppendBlock(G5, else_bb), else_bb),
                  expr.else_)), LAMBDA G6 :
    With(G6.ret, LAMBDA else_v :
    IF ~Truthy(else_v) THEN GenRaise(G6, "Revisit this!")
    ELSE
    With(G6.block, LAMBDA else_end :
    With(Emit(G6, "branch", <<merge_bb>>, ""), LAMBDA G7 :
    With(Emit(position_at(AppendBlock(G7, merge_bb), merge_bb), "phi",
              <<then_v, then_end, else_v, else_end>>, "iftmp"), LAMBDA G8 :
    Push(G8, G8.ret)))))))))))))))))

\* visit_for_stmt from the loop body on: var_addr is bound, old_val saved
for_body(G, expr, var_addr, loop_bb, old_val) ==
    Try(Pop(visit(G, expr.body)), LAMBDA G1 :
    IF ~Truthy(G1.ret) THEN Returning(G1, NoneValue)
    ELSE
    Try(IF expr.step.kind # "None" THEN Pop(visit(G1, expr.step))
        ELSE Returning(G1, Constant("float", 1)), LAMBDA G2 :
    With(G2.ret, LAMBDA step_val :
    IF ~Truthy(step_val) THEN Returning(G2, NoneValue)
    ELSE
    Try(Pop(visit(G2, expr.end)), LAMBDA G3 :
    With(G3.ret, LAMBDA end_cond :
    IF ~Truthy(end_cond) THEN Returning(G3, NoneValue)
    ELSE
    With(Emit(G3, "load", <<var_addr>>, expr.var_name), LAMBDA G4 :
    With(Emit(G4, "fadd", <<G4.ret, step_val>>, "nextvar"), LAMBDA G5 :
    With(Emit(G5, "store", <<G5.ret, var_addr>>, ""), LAMBDA G6 :
    With(Emit(G6, "fcmp_ordered !=", <<end_cond, Constant("double", 0)>>,
              "loopcond"), LAMBDA G7 :
    With(IRBlock(G7.nblocks + 1, "afterloop"), LAMBDA after_bb :
    With(Emit(AppendBlock(MakeBlock(G7), after_bb), "cbranch",
              <<G7.ret, loop_bb, after_bb>>, ""), LAMBDA G8 :
    Returning(
        Push([position_at(G8, after_bb) EXCEPT !.named_values =
                 IF Truthy(old_val)
                 THEN dict_set(@, expr.var_name, old_val)
                 ELSE dict_pop(@, expr.var_name)],
             Constant("float", 0)),
        NoneValue))))))))))))

visit_for_stmt(G, expr) ==
    With(G.block, LAMBDA saved_block :
    With(create_entry_block_alloca(G, expr.var_name, "float"), LAMBDA G1 :
    With(G1.ret, LAMBDA var_addr :
    Try(Pop(visit(position_at(G1, saved_block), expr.start)), LAMBDA G2 :
    With(G2.ret, LAMBDA start_val :
    IF ~Truthy(start_val)
    THEN GenRaise(G2, "codegen: Invalid start argument.")
    ELSE
    With(Emit(G2, "store", <<start_val, var_addr>>, ""), LAMBDA G3 :
    With(IRBlock(G3.nblocks + 1, "loop"), LAMBDA loop_bb :
    With(Emit(AppendBlock(MakeBlock(G3), loop_bb), "branch", <<loop_bb>>,
              ""), LAMBDA G4 :
    With(dict_get(G4.named_values, expr.var_name), LAMBDA old_val :
    for_body([position_at(G4, loop_bb) EXCEPT !.named_values =
                 dict_set(@, expr.var_name, var_addr)],
             expr, var_addr, loop_bb, old_val))))))))))

visit_var_expr(G, expr) ==
    GenRaise(G, "CodeGen for VarExprAST not implemented yet.")

\* returns the ir.Function it adds to the module; nothing is pushed
visit_prototype(G, expr) ==
    With(IRFunction(expr.name, Len(expr.args)), LAMBDA fn :
    Returning([G EXCEPT !.globals = dict_set(@, expr.name, fn)], fn))

RECURSIVE function_args(_, _, _)
\* the loop of visit_function over fn.args
function_args(G, args, i) ==
    IF i > Len(args) THEN G
    ELSE With(Emit(G, "alloca", <<>>, args[i].name), LAMBDA G1 :
         With(G1.ret, LAMBDA alloca :
         function_args(
             [Emit(G1, "store", <<IRArgument(i, args[i].name), alloca>>, "")
                 EXCEPT !.named_values = dict_set(@, args[i].name, alloca)],
             args, i + 1)))

visit_function(G, expr) ==
    Try(get_function([G EXCEPT !.function_protos =
                         dict_set(@, expr.proto.name, expr.proto)],
                     expr.proto.name), LAMBDA G1 :
    With(G1.ret, LAMBDA fn :
    IF ~Truthy(fn) THEN GenRaise(G1, "codegen: Invalid function.")
    ELSE
    With(IRBlock(G1.nblocks + 1, "entry"), LAMBDA basic_block :
    Try(Pop(visit(function_args(
                      position_at(AppendBlock(MakeBlock(G1), basic_block),
                                  basic_block),
                      expr.proto.args, 1),
                  expr.body)), LAMBDA G2 :
    Returning(Emit(G2, "ret",
                   <<IF Truthy(G2.ret) THEN G2.ret
                     ELSE Constant("float", 0)>>, ""),
              fn)))))

visit_return_stmt(G, expr) == Returning(G, NoneValue)

\* CodeGenBase.visit: the visit method of the node's type
VisitMethod(G, expr) ==
    CASE expr.kind = "BinaryExpr" -> visit_binary_expr(G, expr)
      [] expr.kind = "CallExpr" -> visit_call_expr(G, expr)
      [] expr.kind = "FloatExpr" -> visit_float_expr(G, expr)
      [] expr.kind = "ForStmt" -> visit_for_stmt(G, expr)
      [] expr.kind = "Function" -> visit_function(G, expr)
      [] expr.kind = "IfStmt" -> visit_if_stmt(G, expr)
      [] expr.kind = "Prototype" -> visit_prototype(G, expr)
      [] expr.kind = "ReturnStmt" -> visit_return_stmt(G, expr)
      [] expr.kind = "Block" -> visit_block(G, expr)
      [] expr.kind = "UnaryExpr" -> visit_unary_expr(G, expr)
      [] expr.kind = "VarExpr" -> visit_var_expr(G, expr)
      [] expr.kind = "VariableExpr" -> visit_variable_expr(G, expr)
      [] OTHER -> Returning(G, NoneValue)

\* what of the generator a visit can change
Snapshot(G) ==
    [named_values |-> G.named_values, result_stack |-> G.result_stack,
     globals |-> G.globals, function_protos |-> G.function_protos,
     ir |-> Len(G.ir), blocks |-> Len(G.blocks), block |-> G.block,
     visits |-> Len(G.visits)]

\* CodeGenBase.visit.  History: G.visits gets one entry when the visit of
\* a node ends, with the generator at its two ends.
visit(G, expr) ==
    With(VisitMethod(G, expr), LAMBDA H :
    [H EXCEPT !.visits = Append(@, [node |-> expr, before |-> Snapshot(G),
                                    after |-> Snapshot(H),
                                    err |-> H.err])])

emit_object(G, block_ast) == visit_block(G, block_ast)

(***************************************************************************)
(* arx/codegen/ast_to_object.py : ObjectGeneratorVisitor, the visitor that *)
(* hands its results over in result_val and result_func and reports an     *)
(* error by leaving None (LogErrorV).  named_values and function_protos    *)
(* are attributes of the class ArxLLVM.                                    *)
(***************************************************************************)
\* ObjectGenerator.__init__ of ast_to_object.py: a new visitor, a new
\* module with the builtins
NewObjectGeneratorVisitor(named_values, function_protos, cast_bound) ==
    [cast_bound |-> cast_bound,
     result_val |-> NoneValue,
     result_func |-> NoneValue,
     named_values |-> named_values,
     function_protos |-> function_protos,
     globals |-> Builtins,
     ir |-> <<>>,
     blocks |-> <<>>,
     nblocks |-> 0,
     block |-> NoBlock,
     err |-> "",
     ret |-> NoneValue,
     visits |-> <<>>]

result_val(V, value) == [V EXCEPT !.result_val = value]
\* the instruction just emitted becomes result_val
EmitVal(V, op, args, name) ==
    With(Emit(V, op, args, name), LAMBDA V1 : result_val(V1, V1.ret))

RECURSIVE accept(_, _)
RECURSIVE Visitor_call_args(_, _, _, _)
RECURSIVE visit_tree_nodes(_, _, _)

\* ObjectGeneratorVisitor.clean
clean(V) == [V EXCEPT !.result_val = NoneValue, !.result_func = NoneValue]

\* ObjectGeneratorVisitor.get_function: the function in result_func
Visitor_get_function(V, name) ==
    IF name \in DOMAIN V.globals
    THEN [V EXCEPT !.result_func = V.globals[name]]
    ELSE IF name \in DOMAIN V.function_protos
    THEN accept(V, V.function_protos[name])
    ELSE V

Visitor_visit_float_expr(V, expr) ==
    result_val(V, Constant("float", expr.val))

Visitor_visit_variable_expr(V, expr) ==
    With(dict_get(V.named_values, expr.name), LAMBDA expr_var :
    IF ~Truthy(expr_var) THEN result_val(V, NoneValue)
    ELSE EmitVal(V, "load", <<expr_var>>, expr.name))

Visitor_visit_unary_expr(V, expr) ==
    Try(accept(V, expr.operand), LAMBDA V1 :
    With(V1.result_val, LAMBDA operand_value :
    IF ~Truthy(operand_value) THEN result_val(V1, NoneValue)
    ELSE Try(Visitor_get_function(V1, "unary" \o expr.op_code), LAMBDA V2 :
         IF ~Truthy(V2.result_func) THEN result_val(V2, NoneValue)
         ELSE EmitVal(V2, "call", <<V2.result_func, operand_value>>,
                      "unop"))))

\* visit_binary_expr from `expr.lhs.accept(self)` on
Visitor_binary_operands(V, expr) ==
    Try(accept(V, expr.lhs), LAMBDA V1 :
    With(V1.result_val, LAMBDA llvm_val_lhs :
    Try(accept(V1, expr.rhs), LAMBDA V2 :
    With(V2.result_val, LAMBDA llvm_val_rhs :
    IF ~Truthy(llvm_val_lhs) \/ ~Truthy(llvm_val_rhs)
    THEN result_val(V2, NoneValue)
    ELSE IF expr.op = "+"
    THEN EmitVal(V2, "fadd", <<llvm_val_lhs, llvm_val_rhs>>, "addtmp")
    ELSE IF expr.op = "-"
    THEN EmitVal(V2, "fsub", <<llvm_val_lhs, llvm_val_rhs>>, "subtmp")
    ELSE IF expr.op = "*"
    THEN EmitVal(V2, "fmul", <<llvm_val_lhs, llvm_val_rhs>>, "multmp")
    ELSE IF expr.op = "<"
    THEN With(Emit(V2, "fcmp_unordered <", <<llvm_val_lhs, llvm_val_rhs>>,
                   "cmptmp"), LAMBDA V3 :
         EmitVal(V3, "uitofp", <<V3.ret>>, "booltmp"))
    ELSE Try(Visitor_get_function(V2, "binary" \o expr.op), LAMBDA V3 :
         IF ~Truthy(V3.result_func) THEN GenRaise(V3, "AssertionError")
         ELSE EmitVal(V3, "call",
                      <<V3.result_func, llvm_val_lhs, llvm_val_rhs>>,
                      "binop"))))))

\* the `=` branch of visit_binary_expr after cast(VariableExprAST, expr.lhs)
\* gave expr.lhs back.  The branch has no return after the store: the
\* method goes on with expr.lhs.accept(self).
Visitor_assign(V, expr) ==
    Try(accept(V, expr.rhs), LAMBDA V1 :
    With(V1.result_val, LAMBDA val :
    IF ~Truthy(val) THEN result_val(V1, NoneValue)
    ELSE IF expr.lhs.kind # "VariableExpr"
    THEN GenRaise(V1, "AttributeError: get_name")
    ELSE IF expr.lhs.name \notin DOMAIN V1.named_values
    THEN GenRaise(V1, "KeyError")
    ELSE With(V1.named_values[expr.lhs.name], LAMBDA variable :
         IF ~Truthy(variable) THEN result_val(V1, NoneValue)
         ELSE Visitor_binary_operands(
                  result_val(Emit(V1, "store", <<val, variable>>, ""), val),
                  expr))))

\* the `=` branch begins with cast(VariableExprAST, expr.lhs), and the
\* module imports no cast (lines 1-30): a NameError, unless the build
\* binds the name (V.cast_bound) to typing.cast, which returns expr.lhs
Visitor_visit_binary_expr(V, expr) ==
    IF expr.op = "="
    THEN IF V.cast_bound THEN Visitor_assign(V, expr)
         ELSE GenRaise(V, "NameError: name 'cast' is not defined")
    ELSE Visitor_binary_operands(V, expr)

Visitor_call_args(V, args, i, args_v) ==
    IF V.err # "" THEN V
    ELSE IF i > Len(args) THEN Returning(V, ListValue(args_v))
    ELSE Try(accept(V, args[i]), LAMBDA V1 :
         IF ~Truthy(V1.result_val)
         THEN Returning(result_val(V1, NoneValue), NoneValue)
         ELSE Visitor_call_args(V1, args, i + 1,
                                Append(args_v, V1.result_val)))

Visitor_visit_call_expr(V, expr) ==
    Try(Visitor_get_function(V, expr.callee), LAMBDA V1 :
    With(V1.result_func, LAMBDA callee_f :
    IF ~Truthy(callee_f) THEN result_val(V1, NoneValue)
    ELSE IF callee_f.id # Len(expr.args) THEN result_val(V1, NoneValue)
    ELSE Try(Visitor_call_args(V1, expr.args, 1, <<>>), LAMBDA V2 :
         IF V2.ret.v = "None" THEN V2
         ELSE EmitVal(V2, "call", <<callee_f>> \o V2.ret.items,
                      "calltmp"))))

\* visit_for_expr from the loop body on
Visitor_for_body(V, expr, alloca, loop_bb, old_val) ==
    Try(accept(V, expr.body), LAMBDA V1 :
    IF ~Truthy(V1.result_val) THEN result_val(V1, NoneValue)
    ELSE
    Try(IF expr.step.kind # "None" THEN accept(V1, expr.step)
        ELSE result_val(V1, Constant("float", 1)), LAMBDA V2 :
    With(V2.result_val, LAMBDA step_val :
    IF ~Truthy(step_val) THEN result_val(V2, NoneValue)
    ELSE
    Try(accept(V2, expr.end), LAMBDA V3 :
    With(V3.result_val, LAMBDA end_cond :
    IF ~Truthy(end_cond) THEN result_val(V3, NoneValue)
    ELSE
    With(Emit(V3, "load", <<alloca>>, expr.var_name), LAMBDA V4 :
    With(Emit(V4, "fadd", <<V4.ret, step_val>>, "nextvar"), LAMBDA V5 :
    With(Emit(V5, "store", <<V5.ret, alloca>>, ""), LAMBDA V6 :
    With(Emit(V6, "fcmp_ordered !=", <<end_cond, Constant("float", 0)>>,
              "loopcond"), LAMBDA V7 :
    With(IRBlock(V7.nblocks + 1, "afterloop"), LAMBDA after_bb :
    With(Emit(AppendBlock(MakeBlock(V7), after_bb), "cbranch",
              <<V7.ret, loop_bb, after_bb>>, ""), LAMBDA V8 :
    result_val([position_at(V8, after_bb) EXCEPT !.named_values =
                   IF Truthy(old_val)
                   THEN dict_set(@, expr.var_name, old_val)
                   ELSE dict_pop(@, expr.var_name)],
               Constant("float", 0)))))))))))))

Visitor_visit_for_expr(V, expr) ==
    With(Emit(V, "alloca", <<>>, expr.var_name), LAMBDA V0 :
    With(V0.ret, LAMBDA alloca :
    Try(accept(V0, expr.start), LAMBDA V1 :
    With(V1.result_val, LAMBDA start_val :
    IF ~Truthy(start_val) THEN result_val(V1, NoneValue)
    ELSE
    With(Emit(V1, "store", <<start_val, alloca>>, ""), LAMBDA V2 :
    With(IRBlock(V2.nblocks + 1, "loop"), LAMBDA loop_bb :
    With(Emit(AppendBlock(MakeBlock(V2), loop_bb), "branch", <<loop_bb>>,
              ""), LAMBDA V3 :
    With(dict_get(V3.named_values, expr.var_name), LAMBDA old_val :
    Visitor_for_body([position_at(V3, loop_bb) EXCEPT !.named_values =
                         dict_set(@, expr.var_name, alloca)],
                     expr, alloca, loop_bb, old_val)))))))))

\* the loop header is `for var_name, init in expr.var_names.items()`;
\* var_names is the list of pairs parse_var_expr builds (ast.py 326-334),
\* and a list has no items()
Visitor_visit_var_expr(V, expr) ==
    GenRaise(V, "AttributeError: 'list' object has no attribute 'items'")

Visitor_visit_prototype(V, expr) ==
    [V EXCEPT !.globals = dict_set(@, expr.name,
                                   IRFunction(expr.name, Len(expr.args))),
              !.result_func = IRFunction(expr.name, Len(expr.args))]

Visitor_visit_function(V, expr) ==
    Try(Visitor_get_function(
            [V EXCEPT !.function_protos =
                dict_set(@, expr.proto.name, expr.proto)],
            expr.proto.name), LAMBDA V1 :
    With(V1.result_func, LAMBDA fn :
    IF ~Truthy(fn) THEN [V1 EXCEPT !.result_func = NoneValue]
    ELSE
    With(IRBlock(V1.nblocks + 1, "entry"), LAMBDA basic_block :
    Try(accept(function_args(
                   [position_at(AppendBlock(MakeBlock(V1), basic_block),
                                basic_block)
                       EXCEPT !.named_values = EmptyDict],
                   expr.proto.args, 1),
               expr.body), LAMBDA V2 :
    Emit([V2 EXCEPT !.result_func = fn], "ret",
         <<IF Truthy(V2.result_val) THEN V2.result_val
           ELSE Constant("float", 0)>>, "")))))

\* the payload expr.expr is not visited: the value returned is the one
\* result_val holds from the visit before
Visitor_visit_return_expr(V, expr) ==
    IF Truthy(V.result_val) THEN Emit(V, "ret", <<V.result_val>>, "")
    ELSE V

\* Visitor.visit (ast.py 59-82): ObjectGeneratorVisitor has no
\* visit_if_expr and no visit_tree of its own for the dispatch to find
\* other than the ones below
Visitor_visit(V, expr) ==
    CASE expr.kind = "BinaryExpr" -> Visitor_visit_binary_expr(V, expr)
      [] expr.kind = "CallExpr" -> Visitor_visit_call_expr(V, expr)
      [] expr.kind = "FloatExpr" -> Visitor_visit_float_expr(V, expr)
      [] expr.kind = "ForStmt" -> Visitor_visit_for_expr(V, expr)
      [] expr.kind = "Function" -> Visitor_visit_function(V, expr)
      [] expr.kind = "IfStmt" -> GenRaise(V, "Not implemented yet.")
      [] expr.kind = "Prototype" -> Visitor_visit_prototype(V, expr)
      [] expr.kind = "ReturnStmt" -> Visitor_visit_return_expr(V, expr)
      [] expr.kind = "UnaryExpr" -> Visitor_visit_unary_expr(V, expr)
      [] expr.kind = "VarExpr" -> Visitor_visit_var_expr(V, expr)
      [] expr.kind = "VariableExpr" -> Visitor_visit_variable_expr(V, expr)

VisitorSnapshot(V) ==
    [named_values |-> V.named_values, result_val |-> V.result_val,
     result_func |-> V.result_func,
     globals |-> V.globals, function_protos |-> V.function_protos,
     ir |-> Len(V.ir), blocks |-> Len(V.blocks), block |-> V.block,
     visits |-> Len(V.visits)]

\* ExprAST.accept (ast.py 144-178): a node of a kind in its list is
\* visited, any other (a block) only cleans the visitor.  History:
\* V.visits gets one entry when the call ends.
accept(V, expr) ==
    With(IF expr.kind \in {"Block", "Module", "None"} THEN clean(V)
         ELSE Visitor_visit(V, expr), LAMBDA W :
    [W EXCEPT !.visits = Append(@, [node |-> expr,
                                    before |-> VisitorSnapshot(V),
                                    after |-> VisitorSnapshot(W),
                                    err |-> W.err])])

visit_tree_nodes(V, nodes, i) ==
    IF V.err # "" \/ i > Len(nodes) THEN V
    ELSE visit_tree_nodes(accept(V, nodes[i]), nodes, i + 1)

\* ObjectGeneratorVisitor.visit_tree
visit_tree(V, tree_ast) == visit_tree_nodes(V, tree_ast.nodes, 1)

\* no generator made yet: the class attribute named_values is the empty dict
NoGen ==
    [visitor |-> "", lowered |-> 0, block_ast |-> BlockAST(<<>>),
     G |-> NewObjectGenerator(EmptyDict)]

(***************************************************************************)
(* arx/main.py : ArxMain, and arx/codegen/file_object.py : ObjectGenerator *)
(* as far as the path of the object file goes.  A path is a str.           *)
(***************************************************************************)
NoObjectGenerator ==
    [made |-> FALSE, input_file |-> "", output_file |-> "", is_lib |-> TRUE]

\* ObjectGenerator.__init__:
\*     self.output_file = output_file or f"{input_file}.o"
ObjectGenerator(input_file, output_file, is_lib) ==
    [made |-> TRUE,
     input_file |-> input_file,
     output_file |-> IF output_file # "" THEN output_file
                     ELSE input_file \o ".o",
     is_lib |-> is_lib]

\* ObjectGenerator.evaluate, from the emitted object on: the path the
\* object code is written to
evaluate_output_file(obj) ==
    IF obj.output_file = "" THEN obj.input_file \o ".o" ELSE obj.output_file

\* ArxMain before run
NoMain ==
    [at |-> "idle", input_files |-> <<>>, output_file |-> "",
     is_lib |-> TRUE, show_llvm_ir |-> FALSE, parsed |-> 0,
     obj_gen |-> NoObjectGenerator, wrote |-> <<>>]

\* ArxBuffer.__init__ (the class attribute ArxIO.buffer = ArxBuffer())
ArxBuffer_init == ArxBuffer_clean([buffer |-> <<>>, position |-> 0])

NoLoad == [on |-> FALSE, s |-> <<>>, reads |-> <<>>]

StringToBuffer(s) ==
    /\ buffer' = string_to_buffer(buffer, s)
    /\ load' = [on |-> TRUE, s |-> s, reads |-> <<>>]

Write(text) ==
    /\ Len(buffer.buffer) + Len(text) <= MaxBuf
    /\ buffer' = ArxBuffer_write(buffer, text)
    /\ load' = NoLoad

Clean ==
    /\ buffer' = ArxBuffer_clean(buffer)
    /\ load' = NoLoad

Read ==
    /\ buffer.position < Len(buffer.buffer) + MaxOverRead
    /\ LET r == ArxBuffer_read(buffer)
       IN  /\ buffer' = r.b
           /\ load' = IF load.on
                      THEN [load EXCEPT !.reads = Append(@, r.ch)]
                      ELSE load

BufNext ==
    \/ \E s \in StringsUpTo(BufChars, MaxStr) : StringToBuffer(s)
    \/ \E t \in StringsUpTo(BufChars, MaxStr) \ {<<>>} : Write(t)
    \/ Clean
    \/ Read

NoSrc == [form |-> "none", tokens |-> <<>>]
NoCall == [on |-> FALSE]

\* no parser at work
ParIdle ==
    /\ src = NoSrc /\ par = Parser(<<>>) /\ tree = <<>>
    /\ phase = "ready" /\ call = NoCall /\ earlier = <<>>
    /\ main = NoMain /\ gen = NoGen

\* no lexer at work
LexIdle == lex = LexStart /\ emitted = <<>>

\* a fresh buffer, nothing loaded
BufInit ==
    /\ buffer = ArxBuffer_init /\ load = NoLoad
    /\ LexIdle /\ ParIdle

SpecBuf == BufInit /\ [][BufNext /\ UNCHANGED <<lex, emitted, parVars, main, gen>>]_vars

(***************************************************************************)
(* The lexer at work on one source text.                                   *)
(***************************************************************************)
Keywords ==
    {<<"f", "n">>, <<"r", "e", "t", "u", "r", "n">>,
     <<"e", "x", "t", "e", "r", "n">>, <<"i", "f">>, <<"e", "l", "s", "e">>,
     <<"f", "o", "r">>, <<"i", "n">>, <<"b", "i", "n", "a", "r", "y">>,
     <<"u", "n", "a", "r", "y">>, <<"v", "a", "r">>,
     <<"c", "o", "n", "s", "t">>}

LexChars == {"a", "1", " ", "\n", "+", "#", "."}

\* longer texts with numbers in them
NumberSamples ==
    {<<"1", ".", "2", ".", "0">>, <<"a", "1", ".", "2", " ", "2">>,
     <<"1", "2", ".", "0", "+", ".", "1">>}

LexInputs == Keywords \cup NumberSamples \cup StringsUpTo(LexChars, MaxSrcLen)

EofsEmitted == Cardinality({i \in 1..Len(emitted) : emitted[i].tok = tok_eof})

\* one call of Lexer.get_next_token.  A call that raised may be followed
\* by another: the lexer's state is what the raising call left.
GetNextToken ==
    /\ EofsEmitted < MaxEofs
    /\ \E G \in {get_next_token(
                    [b |-> buffer, ret |-> "", num_str |-> <<>>] @@ lex)} :
           /\ buffer' = G.b
           /\ lex' = [f \in DOMAIN lex |-> G[f]]
           /\ emitted' =
                  Append(emitted,
                         [tok |-> G.ret,
                          name |-> IF G.err THEN "ValueError"
                                   ELSE get_tok_name(G.ret),
                          identifier_str |-> G.identifier_str,
                          num_float |-> G.num_float,
                          num_str |-> G.num_str,
                          cur_loc |-> G.cur_loc,
                          before |-> buffer.position,
                          after |-> G.b.position])
    /\ UNCHANGED <<load, parVars, main, gen>>

LexInit ==
    /\ \E s \in LexInputs :
           /\ buffer = string_to_buffer(ArxBuffer_clean(<<>>), s)
           /\ load = [on |-> TRUE, s |-> s, reads |-> <<>>]
    /\ LexIdle
    /\ ParIdle

SpecLex == LexInit /\ [][GetNextToken]_vars

LexDone == emitted # <<>> /\ emitted[Len(emitted)].tok = tok_eof

\* the caller goes on asking for tokens
SpecLexFair == SpecLex /\ WF_vars(GetNextToken)

(***************************************************************************)
(* Parser.parse, one iteration of its top-level loop at a time.            *)
(***************************************************************************)
\* parse(tokens) up to the loop: clean, take the tokens, prime cur_tok
ParseBegin ==
    /\ phase = "ready"
    /\ par' = parse_begin(par, src.tokens)
    /\ tree' = <<>>
    /\ phase' = "loop"
    /\ UNCHANGED <<ioVars, src, call, earlier, main, gen>>

\* the item parsed by one iteration either is appended or its exception
\* leaves parse
\* a plausible slip: the newest node is put first
TopItem_prepend(R) ==
    /\ par' = R
    /\ tree' = IF R.err = "" THEN <<R.node>> \o tree ELSE tree
    /\ phase' = IF R.err = "" THEN "loop" ELSE "raised"
    /\ UNCHANGED <<ioVars, src, call, earlier, main, gen>>

TopItem(R) ==
    /\ par' = R
    /\ tree' = IF R.err = "" THEN Append(tree, R.node) ELSE tree
    /\ phase' = IF R.err = "" THEN "loop" ELSE "raised"
    /\ UNCHANGED <<ioVars, src, call, earlier, main, gen>>

TopEof ==
    /\ phase = "loop"
    /\ par.cur_tok.kind = "eof"
    /\ phase' = "returned"
    /\ UNCHANGED <<ioVars, src, par, tree, call, earlier, main, gen>>

\* a plausible slip: the `;` is looked at but not eaten
TopSemicolon_stay ==
    /\ phase = "loop"
    /\ par.cur_tok.kind # "eof"
    /\ TokEq(par.cur_tok, Op(";"))
    /\ par' = par
    /\ UNCHANGED <<ioVars, src, tree, phase, call, earlier, main, gen>>

TopSemicolon ==
    /\ phase = "loop"
    /\ par.cur_tok.kind # "eof"
    /\ TokEq(par.cur_tok, Op(";"))
    /\ par' = Eat(par)
    /\ UNCHANGED <<ioVars, src, tree, phase, call, earlier, main, gen>>

TopFunction ==
    /\ phase = "loop"
    /\ par.cur_tok.kind = "kw_function"
    /\ TopItem(parse_function(par))

TopExtern ==
    /\ phase = "loop"
    /\ par.cur_tok.kind = "kw_extern"
    /\ TopItem(parse_extern(par))

TopExpression ==
    /\ phase = "loop"
    /\ par.cur_tok.kind \notin {"eof", "kw_function", "kw_extern"}
    /\ ~TokEq(par.cur_tok, Op(";"))
    /\ TopItem(parse_expression(par))

\* the module Parser.parse returns
Module == ModuleAST("main", tree)

\* a parser given the tokens of one source text
ParInit(sources) ==
    /\ buffer = ArxBuffer_init /\ load = NoLoad /\ LexIdle
    /\ src \in sources
    /\ par = Parser(<<>>) /\ tree = <<>> /\ phase = "ready" /\ call = NoCall
    /\ earlier = <<>> /\ main = NoMain /\ gen = NoGen

(***************************************************************************)
(* Expression sources: a chain  o1 op1 o2 op2 ... of operands joined by    *)
(* the binary operators of the table.  An operand is given as the node it  *)
(* stands for: a variable, a float literal or, written in parentheses, a   *)
(* binary expression.                                                      *)
(***************************************************************************)
BinOps == {"=", "<", ">", "+", "-", "*"}
Atoms == {VariableExprAST("a", "float"), FloatExprAST(1)}
Parenthesised ==
    {BinaryExprAST("-", FloatExprAST(3), FloatExprAST(2)),
     BinaryExprAST("=", VariableExprAST("b", "float"), FloatExprAST(2))}

RECURSIVE Render(_)
Render(n) ==
    CASE n.kind = "VariableExpr" -> <<Ident(n.name)>>
      [] n.kind = "FloatExpr" -> <<Float(n.val)>>
      [] n.kind = "BinaryExpr" ->
            <<Op("(")>> \o Render(n.lhs) \o <<Op(n.op)>> \o Render(n.rhs)
                \o <<Op(")")>>

RECURSIVE ChainTokens(_, _, _)
ChainTokens(operands, ops, k) ==
    IF k = 0 THEN Render(operands[1])
    ELSE ChainTokens(operands, ops, k - 1) \o <<Op(ops[k])>>
             \o Render(operands[k + 1])

Chain(operands, ops) ==
    [form |-> "chain", operands |-> operands, ops |-> ops,
     tokens |-> Append(ChainTokens(operands, ops, Len(ops)), TokEOF)]

\* the chains of k operators; those of two operators also take
\* parenthesised operands
ExprSources(k) ==
    {Chain(os, ops) :
        os \in [1..(k + 1) ->
                   IF k = 2 THEN Atoms \cup Parenthesised ELSE Atoms],
        ops \in [1..k -> BinOps]}

SpecExpr ==
    /\ \E k \in 0..MaxOps : ParInit(ExprSources(k))
    /\ [][ParseBegin \/ TopExpression \/ TopEof]_vars

(***************************************************************************)
(* The precedence lookup and parse_bin_op_rhs called directly, as the      *)
(* tests call the parse_* methods: on a parser built over a token list,    *)
(* with the cursor moved by hand.                                          *)
(***************************************************************************)
PrecTokens ==
    {Ident("a"), Float(2), Indent(2), Tok("kw_if", "if"), Tok("kw_in", "in"),
     Op("="), Op("<"), Op(">"), Op("+"), Op("-"), Op("*"),
     Op("("), Op(":"), Op("/")}

PrecSources ==
    UNION {{[form |-> "tokens", tokens |-> Append(ts, TokEOF)] :
               ts \in [1..k -> PrecTokens]} : k \in 0..MaxPrecLen}

\* the precedences parse_bin_op_rhs is called with: 0 by parse_expression,
\* cur_prec + 1 by itself
CalledPrecs == {0} \cup {bin_op_precedence[op] + 1 : op \in BinOps}

PrecInit ==
    /\ buffer = ArxBuffer_init /\ load = NoLoad /\ LexIdle
    /\ src \in PrecSources
    /\ par = Parser(src.tokens) /\ tree = <<>> /\ phase = "ready"
    /\ call = NoCall /\ earlier = <<>> /\ main = NoMain /\ gen = NoGen

\* parser.tokens.get_next_token()
GetNextTokenByHand ==
    /\ ~call.on
    /\ par.position < Len(par.tokens)
    /\ par' = Eat(par)
    /\ UNCHANGED <<ioVars, src, tree, phase, call, earlier, main, gen>>

\* parser.parse_bin_op_rhs(expr_prec, lhs)
CallParseBinOpRhs(expr_prec, lhs) ==
    /\ ~call.on
    /\ par' = parse_bin_op_rhs(par, expr_prec, lhs)
    /\ call' = [on |-> TRUE, before |-> par, expr_prec |-> expr_prec,
                lhs |-> lhs]
    /\ UNCHANGED <<ioVars, src, tree, phase, earlier, main, gen>>

SpecPrec ==
    /\ PrecInit
    /\ [][\/ GetNextTokenByHand
          \/ \E q \in CalledPrecs : CallParseBinOpRhs(q, FloatExprAST(1))]_vars

(***************************************************************************)
(* Statement sources.                                                      *)
(*                                                                         *)
(* An `if` source is                                                       *)
(*     [fn f(x): | if o:]       the enclosing block, indented by f         *)
(*         if c:                                                           *)
(*             a                indented by t                              *)
(*         [else:                                                          *)
(*             b]               indented by e                              *)
(*     [d]                      indented by trail                          *)
(* The lexer gives a line indented by n >= 1 spaces an Indent(n) token and *)
(* a line that is not indented none.                                       *)
(***************************************************************************)
IndentTok(n) == IF n > 0 THEN <<Indent(n)>> ELSE <<>>

IfTokens(ctx, f, t, hasElse, e, trail) ==
    (CASE ctx = "top" -> <<>>
       [] ctx = "fn" -> <<Tok("kw_function", "fn"), Ident("f"), Op("("),
                          Ident("x"), Op(")"), Op(":")>> \o IndentTok(f)
       [] ctx = "if" -> <<Tok("kw_if", "if"), Ident("o"), Op(":")>>
                            \o IndentTok(f))
    \o <<Tok("kw_if", "if"), Ident("c"), Op(":")>> \o IndentTok(t)
    \o <<Ident("a")>>
    \o (IF hasElse
        THEN IndentTok(f) \o <<Tok("kw_else", "else"), Op(":")>>
                 \o IndentTok(e) \o <<Ident("b")>>
        ELSE <<>>)
    \o (IF trail >= 0 THEN IndentTok(trail) \o <<Ident("d")>> ELSE <<>>)
    \o <<TokEOF>>

IfSource(ctx, f, t, hasElse, e, trail) ==
    [form |-> "if", ctx |-> ctx, f |-> f, t |-> t, hasElse |-> hasElse,
     e |-> e, trail |-> trail,
     tokens |-> IfTokens(ctx, f, t, hasElse, e, trail)]

IfSources ==
    {IfSource(c[1], c[2], t, el[1], el[2], trail) :
        c \in {<<"top", 0>>} \cup ({"fn", "if"} \X (1..MaxIndent)),
        t \in 0..MaxIndent,
        el \in {<<FALSE, 0>>} \cup ({TRUE} \X (0..MaxIndent)),
        trail \in -1..MaxIndent}

\* an expression written without parentheses
RenderBare(n) ==
    IF n.kind = "BinaryExpr"
    THEN Render(n.lhs) \o <<Op(n.op)>> \o Render(n.rhs)
    ELSE Render(n)

Parts ==
    {FloatExprAST(1), VariableExprAST("n", "float"),
     BinaryExprAST("<", VariableExprAST("i", "float"), FloatExprAST(3))}

\* for i = start, end [, step] in body
ForSource(start, end, step, body) ==
    [form |-> "for", start |-> start, end |-> end, step |-> step,
     body |-> body,
     tokens |-> <<Tok("kw_for", "for"), Ident("i"), Op("=")>>
                    \o RenderBare(start) \o <<Op(",")>> \o RenderBare(end)
                    \o (IF step.kind = "None" THEN <<>>
                        ELSE <<Op(",")>> \o RenderBare(step))
                    \o <<Tok("kw_in", "in")>> \o RenderBare(body)
                    \o <<TokEOF>>]

ForSources ==
    {ForSource(s, e, t, b) :
        s \in Parts, e \in Parts, t \in Parts \cup {NoNode}, b \in Parts}

\* var name [= init] {, name [= init]} in body
RECURSIVE BindingTokens(_, _)
BindingTokens(bindings, k) ==
    IF k = 0 THEN <<>>
    ELSE BindingTokens(bindings, k - 1)
             \o (IF k > 1 THEN <<Op(",")>> ELSE <<>>)
             \o <<Ident(bindings[k][1])>>
             \o (IF bindings[k][2].kind = "None" THEN <<>>
                 ELSE <<Op("=")>> \o RenderBare(bindings[k][2]))

VarSource(bindings, body) ==
    [form |-> "var", bindings |-> bindings, body |-> body,
     tokens |-> <<Tok("kw_var", "var")>>
                    \o BindingTokens(bindings, Len(bindings))
                    \o <<Tok("kw_in", "in")>> \o RenderBare(body)
                    \o <<TokEOF>>]

VarSources ==
    UNION {{VarSource(bs, b) :
               bs \in [1..k -> {"a", "b"} \X (Parts \cup {NoNode})],
               b \in Parts} : k \in 1..MaxBindings}

(***************************************************************************)
(* Same-line sources: a body written on the line of the `:` that opens it, *)
(* so that no Indent token follows the `:`.                                *)
(*     if c: body      if c:            fn f(x): body                      *)
(*                       a                                                 *)
(*                     else: body                                          *)
(***************************************************************************)
SameLineBodies ==
    {<<Float(3)>>, <<Float(1), Op("+"), Ident("a")>>, <<Ident("a")>>,
     <<Op("("), Ident("a"), Op(")")>>}

SameLineHead(ctx) ==
    CASE ctx = "if" -> <<Tok("kw_if", "if"), Ident("c"), Op(":")>>
      [] ctx = "else" -> <<Tok("kw_if", "if"), Ident("c"), Op(":"), Indent(2),
                           Ident("a"), Tok("kw_else", "else"), Op(":")>>
      [] ctx = "fn" -> <<Tok("kw_function", "fn"), Ident("f"), Op("("),
                         Ident("x"), Op(")"), Op(":")>>

\* bodyAt: the place of the body's first token in the token list
SameLineSource(ctx, body) ==
    [form |-> "sameline", ctx |-> ctx, body |-> body,
     bodyAt |-> Len(SameLineHead(ctx)) + 1,
     tokens |-> SameLineHead(ctx) \o body \o <<TokEOF>>]

SameLineSources ==
    {SameLineSource(ctx, body) :
        ctx \in {"if", "else", "fn"}, body \in SameLineBodies}

SpecStmt ==
    /\ ParInit(IfSources \cup ForSources \cup VarSources
                   \cup SameLineSources)
    /\ [][ParseBegin \/ TopFunction \/ TopExpression \/ TopEof]_vars

(***************************************************************************)
(* Module sources: a sequence of top-level items.  Each item is given by   *)
(* its tokens and by the node it stands for: none for a `;`, and none for  *)
(* an item that is not well formed (ok = FALSE).                           *)
(***************************************************************************)
TopLevelItem(text, ok, tokens, nodes) ==
    [text |-> text, ok |-> ok, tokens |-> tokens, nodes |-> nodes]

\* fn add_one(a):
\*   a + 1
FnAddOne ==
    TopLevelItem("fn", TRUE,
        <<Tok("kw_function", "fn"), Ident("add_one"), Op("("), Ident("a"),
          Op(")"), Op(":"), Indent(2), Ident("a"), Op("+"), Float(1)>>,
        <<FunctionAST(
              PrototypeAST("add_one", "float",
                           <<VariableExprAST("a", "float")>>),
              BlockAST(<<BinaryExprAST("+", VariableExprAST("a", "float"),
                                       FloatExprAST(1))>>))>>)

\* add_one(1)
CallAddOne ==
    TopLevelItem("call", TRUE,
        <<Ident("add_one"), Op("("), Float(1), Op(")")>>,
        <<CallExprAST("add_one", <<FloatExprAST(1)>>)>>)

\* extern sin(x)
ExternSin ==
    TopLevelItem("extern", TRUE,
        <<Tok("kw_extern", "extern"), Ident("sin"), Op("("), Ident("x"),
          Op(")")>>,
        <<PrototypeAST("sin", "float", <<VariableExprAST("x", "float")>>)>>)

Semicolon == TopLevelItem(";", TRUE, <<Op(";")>>, <<>>)

\* fn (       : a function without a name
FnNoName ==
    TopLevelItem("fn (", FALSE, <<Tok("kw_function", "fn"), Op("(")>>, <<>>)

\* fn f(x):
\*   if c:
\*     in     : an unexpected token two blocks deep
FnBadNested ==
    TopLevelItem("fn if in", FALSE,
        <<Tok("kw_function", "fn"), Ident("f"), Op("("), Ident("x"),
          Op(")"), Op(":"), Indent(2), Tok("kw_if", "if"), Ident("c"),
          Op(":"), Indent(4), Tok("kw_in", "in")>>,
        <<>>)

\* fn f(x):
\*   if c:
\*  a         : the line after `if c:` is shallower than the `if`
FnShallowThen ==
    TopLevelItem("fn if shallow", FALSE,
        <<Tok("kw_function", "fn"), Ident("f"), Op("("), Ident("x"),
          Op(")"), Op(":"), Indent(2), Tok("kw_if", "if"), Ident("c"),
          Op(":"), Indent(1), Ident("a")>>,
        <<>>)

TopLevelItems ==
    {FnAddOne, CallAddOne, ExternSin, Semicolon, FnNoName, FnBadNested,
     FnShallowThen}

RECURSIVE ItemTokens(_), ItemNodes(_)
ItemTokens(items) ==
    IF items = <<>> THEN <<>>
    ELSE Head(items).tokens \o ItemTokens(Tail(items))

\* the nodes of the items that come before the first ill-formed one
ItemNodes(items) ==
    IF items = <<>> \/ ~Head(items).ok THEN <<>>
    ELSE Head(items).nodes \o ItemNodes(Tail(items))

TopSource(items) ==
    [form |-> "top", items |-> items,
     ok |-> \A i \in 1..Len(items) : items[i].ok,
     tokens |-> ItemTokens(items) \o <<TokEOF>>]

TopSources(k) == {TopSource(items) : items \in [1..k -> TopLevelItems]}

TopInit == \E k \in 0..MaxItems : ParInit(TopSources(k))

TopNext ==
    \/ ParseBegin
    \/ TopSemicolon
    \/ TopFunction
    \/ TopExtern
    \/ TopExpression
    \/ TopEof

SpecTop == TopInit /\ [][TopNext]_vars

\* parse is called again on the Parser that has run a parse, with the
\* token list of any module
ParseAgain ==
    /\ phase \in {"returned", "raised"}
    /\ Len(earlier) < MaxParses - 1
    /\ \E k \in 0..MaxReparseItems : \E s \in TopSources(k) :
           /\ src' = s
           /\ par' = parse_begin(par, s.tokens)
    /\ earlier' = Append(earlier, [ended |-> phase,
                                   indent_level |-> par.indent_level])
    /\ tree' = <<>>
    /\ phase' = "loop"
    /\ UNCHANGED <<ioVars, call, main, gen>>

SpecReparse == TopInit /\ [][TopNext \/ ParseAgain]_vars

(***************************************************************************)
(* ArxMain.run and ArxMain.compile, a step at a time: the arguments are    *)
(* taken, each input file is read and parsed, the ObjectGenerator is made  *)
(* and evaluate writes the object file.                                    *)
(***************************************************************************)
InputFileNames == {"a.arx", "lib/b.arx"}
OutputFileNames == {"", "out.o"}

\* ArxMain.run(input_files=.., output_file=.., show_llvm_ir=..): is_lib is
\* `kwargs.get("is_lib", True) or True`
Run(input_files, output_file, show_llvm_ir) ==
    /\ main.at = "idle"
    /\ main' = [main EXCEPT !.at = "compile",
                            !.input_files = input_files,
                            !.output_file = output_file,
                            !.is_lib = TRUE,
                            !.show_llvm_ir = show_llvm_ir]
    /\ UNCHANGED <<ioVars, parVars, gen>>

\* one turn of `for input_file in self.input_files`: the file is read,
\* lexed and parsed; any of these may raise, which leaves compile
CompileInputFile(ok) ==
    /\ main.at = "compile"
    /\ main.parsed < Len(main.input_files)
    /\ main' = IF ok THEN [main EXCEPT !.parsed = @ + 1]
               ELSE [main EXCEPT !.at = "raised"]
    /\ UNCHANGED <<ioVars, parVars, gen>>

\* obj_gen = ObjectGenerator("input_file", self.output_file, self.is_lib)
MakeObjectGenerator ==
    /\ main.at = "compile"
    /\ main.parsed = Len(main.input_files)
    /\ main' = [main EXCEPT
                   !.at = "evaluate",
                   !.obj_gen = ObjectGenerator("input_file", main.output_file,
                                               main.is_lib)]
    /\ UNCHANGED <<ioVars, parVars, gen>>

\* obj_gen.evaluate(tree_ast, show_llvm_ir): emit_object may raise; with
\* show_llvm_ir the module is printed and nothing is written; otherwise
\* the object code is written to output_file
Evaluate(ok) ==
    /\ main.at = "evaluate"
    /\ main' =
           IF ~ok THEN [main EXCEPT !.at = "raised"]
           ELSE IF main.show_llvm_ir THEN [main EXCEPT !.at = "done"]
           ELSE [main EXCEPT
                    !.at = "done",
                    !.obj_gen.output_file = evaluate_output_file(main.obj_gen),
                    !.wrote = Append(@, evaluate_output_file(main.obj_gen))]
    /\ UNCHANGED <<ioVars, parVars, gen>>

MainInit ==
    /\ buffer = ArxBuffer_init /\ load = NoLoad /\ LexIdle /\ ParIdle

MainNext ==
    \/ \E n \in 0..MaxFiles : \E fs \in [1..n -> InputFileNames] :
           \E out \in OutputFileNames : \E ir \in BOOLEAN : Run(fs, out, ir)
    \/ \E ok \in BOOLEAN : CompileInputFile(ok)
    \/ MakeObjectGenerator
    \/ \E ok \in BOOLEAN : Evaluate(ok)

SpecMain == MainInit /\ [][MainNext]_vars

(***************************************************************************)
(* Token lists of any shape: every sequence of up to MaxTokens tokens of   *)
(* a small alphabet, closed by EOF.                                        *)
(***************************************************************************)
AnyTokens ==
    {Tok("kw_function", "fn"), Tok("kw_extern", "extern"), Tok("kw_if", "if"),
     Ident("a"), Float(1), Indent(2),
     Op("+"), Op("("), Op(")"), Op(":"), Op(";"), Op(",")}

AnySources(k) ==
    {[form |-> "any", tokens |-> ts \o <<TokEOF>>] : ts \in [1..k -> AnyTokens]}

AnyInit == \E k \in 0..MaxTokens : ParInit(AnySources(k))

SpecAny == AnyInit /\ [][TopNext]_vars

\* Parser.parse runs on: the step it can take is taken
SpecAnyFair == SpecAny /\ WF_vars(TopNext)

\* the nodes of a tree, the root first
ChildSeq(n) ==
    CASE n.kind = "UnaryExpr" -> <<n.operand>>
      [] n.kind = "BinaryExpr" -> <<n.lhs, n.rhs>>
      [] n.kind = "CallExpr" -> n.args
      [] n.kind = "IfStmt" -> <<n.cond, n.then_, n.else_>>
      [] n.kind = "ForStmt" -> <<n.start, n.end, n.step, n.body>>
      [] n.kind = "VarExpr" ->
            [i \in 1..Len(n.var_names) |-> n.var_names[i][2]] \o <<n.body>>
      [] n.kind = "Prototype" -> n.args
      [] n.kind = "Function" -> <<n.proto, n.body>>
      [] n.kind = "ReturnStmt" -> <<n.value>>
      [] n.kind \in {"Block", "Module"} -> n.nodes
      [] OTHER -> <<>>

RECURSIVE Nodes(_), NodesOfSeq(_)
Nodes(n) == <<n>> \o NodesOfSeq(ChildSeq(n))
NodesOfSeq(ns) ==
    IF Len(ns) = 0 THEN <<>> ELSE Nodes(Head(ns)) \o NodesOfSeq(Tail(ns))

(***************************************************************************)
(* C10: after string_to_buffer(s) the successive read() calls return       *)
(* s[0], s[1], ..., s[len(s)-1] in order and then "" on every further      *)
(* call, whatever the buffer held and however far it had been read before. *)
(***************************************************************************)
C10_ReadsFollowLoad ==
    load.on =>
        \A i \in 1..Len(load.reads) :
            load.reads[i] = IF i <= Len(load.s) THEN load.s[i] ELSE ""

\* a load over a non-empty, partly read buffer, read to the end and beyond
C10_Witness ==
    /\ load.on
    /\ Len(load.s) = MaxStr
    /\ Len(load.reads) = Len(load.s) + MaxOverRead

(***************************************************************************)
(* The precedence table as the specification gives it.                     *)
(***************************************************************************)
TablePrec(op) ==
    CASE op = "=" -> 2 [] op = "<" -> 10 [] op = ">" -> 10
      [] op = "+" -> 20 [] op = "-" -> 20 [] op = "*" -> 40

(***************************************************************************)
(* C1: precedence grouping.  For operands a, b, c and operators op1, op2   *)
(* of the table with prec(op2) > prec(op1), `a op1 b op2 c` parses to      *)
(* op1(a, op2(b, c)) and `a op2 b op1 c` to op1(op2(a, b), c); an operand  *)
(* written in parentheses is a single operand whatever the operators       *)
(* around it.                                                              *)
(***************************************************************************)
C1_PrecedenceGrouping ==
    (src.form = "chain" /\ Len(src.ops) = 2) =>
        LET a == src.operands[1]
            b == src.operands[2]
            c == src.operands[3]
            first == src.ops[1]
            second == src.ops[2]
        IN  /\ phase # "raised"
            /\ (phase = "returned" /\ TablePrec(second) > TablePrec(first)) =>
                   tree = <<BinaryExprAST(first, a,
                                          BinaryExprAST(second, b, c))>>
            /\ (phase = "returned" /\ TablePrec(first) > TablePrec(second)) =>
                   tree = <<BinaryExprAST(second,
                                          BinaryExprAST(first, a, b), c)>>

\* `1 + a * (3 - 2)` has been parsed
C1_Witness ==
    /\ phase = "returned"
    /\ src.form = "chain"
    /\ src.ops = <<"+", "*">>
    /\ src.operands[3] = BinaryExprAST("-", FloatExprAST(3), FloatExprAST(2))
    /\ tree = <<BinaryExprAST("+", src.operands[1],
                    BinaryExprAST("*", src.operands[2], src.operands[3]))>>

(***************************************************************************)
(* C2: left associativity.  A chain of binary operators of equal           *)
(* precedence parses to the left-nested tree ((a op b) op c) ..., for      *)
(* chains of every length.                                                 *)
(***************************************************************************)
RECURSIVE LeftNested(_, _, _)
LeftNested(operands, ops, k) ==
    IF k = 0 THEN operands[1]
    ELSE BinaryExprAST(ops[k], LeftNested(operands, ops, k - 1),
                       operands[k + 1])

EqualPrecedence(ops) ==
    \A i, j \in 1..Len(ops) : TablePrec(ops[i]) = TablePrec(ops[j])

C2_LeftAssociative ==
    (src.form = "chain" /\ Len(src.ops) >= 1 /\ EqualPrecedence(src.ops)) =>
        /\ phase # "raised"
        /\ phase = "returned" =>
               tree = <<LeftNested(src.operands, src.ops, Len(src.ops))>>

\* `a + 1 - a - a`-like chain of three operators, two of them distinct
C2_Witness ==
    /\ phase = "returned"
    /\ src.form = "chain"
    /\ Len(src.ops) = 3
    /\ EqualPrecedence(src.ops)
    /\ src.ops[1] # src.ops[2]
    /\ tree[1].lhs.lhs.kind = "BinaryExpr"

(***************************************************************************)
(* C3: get_tok_precedence returns 2 for `=`, 10 for `<` and `>`, 20 for    *)
(* `+` and `-`, 40 for `*` and -1 for every other current token of any     *)
(* kind; and a -1 result makes parse_bin_op_rhs return its lhs without     *)
(* consuming a token.                                                      *)
(***************************************************************************)
C3_PrecedenceLookup ==
    /\ get_tok_precedence(par) =
           IF par.cur_tok.kind = "operator" /\ par.cur_tok.value \in BinOps
           THEN TablePrec(par.cur_tok.value)
           ELSE -1
    /\ (call.on /\ get_tok_precedence(call.before) = -1) =>
           /\ par.err = ""
           /\ par.node = call.lhs
           /\ par.position = call.before.position
           /\ par.cur_tok = call.before.cur_tok

\* parse_bin_op_rhs was called on an indent token, and on `:`
C3_Witness ==
    /\ call.on
    /\ call.before.cur_tok.kind = "indent"
    /\ get_tok_precedence(call.before) = -1
    /\ par.node = call.lhs

(***************************************************************************)
(* C4: if/else symmetry.  Whenever parse_if_stmt returns an IfStmt, its    *)
(* else_block.nodes is the empty list if the source has no `else` clause   *)
(* and is non-empty if the source has an `else:` clause.                   *)
(***************************************************************************)
C4_IfElseSymmetry ==
    (phase = "returned" /\ src.form = "if") =>
        LET all == Nodes(Module)
        IN  \A i \in 1..Len(all) :
                (all[i].kind = "IfStmt"
                     /\ all[i].cond = VariableExprAST("c", "float")) =>
                    (Len(all[i].else_.nodes) > 0) = src.hasElse

(***************************************************************************)
(* C5: every IfStmt returned by a successful parse has a non-empty         *)
(* then_block, at every nesting depth and for every indentation of the     *)
(* line that follows `if cond:` (deeper than, equal to, or shallower than  *)
(* the enclosing block).                                                   *)
(***************************************************************************)
C5_ThenBlockNonEmpty ==
    phase = "returned" =>
        LET all == Nodes(Module)
        IN  \A i \in 1..Len(all) :
                all[i].kind = "IfStmt" => Len(all[i].then_.nodes) > 0

(***************************************************************************)
(* C6: for-step default.  parse_for_stmt returns a ForStmt whose step is   *)
(* exactly FloatExpr(1.0) when the source gives no step and is the parsed  *)
(* step expression otherwise; step is never null.                          *)
(***************************************************************************)
C6_ForStepDefault ==
    src.form = "for" =>
        /\ phase # "raised"
        /\ phase = "returned" =>
               /\ Len(tree) = 1
               /\ tree[1].kind = "ForStmt"
               /\ tree[1].step = IF src.step.kind = "None"
                                 THEN FloatExprAST(1)
                                 ELSE src.step
               /\ tree[1].step # NoNode

\* a `for` without a step, and with a start that is not 1.0, was parsed
C6_Witness ==
    /\ phase = "returned"
    /\ src.form = "for"
    /\ src.step.kind = "None"
    /\ src.start = VariableExprAST("n", "float")
    /\ tree[1].step = FloatExprAST(1)

(***************************************************************************)
(* C7: var-init default.  In the VarExpr returned by parse_var_expr the    *)
(* bindings appear in declaration order; a binding written without `=`     *)
(* has initializer exactly FloatExpr(0.0), a binding written with `=` has  *)
(* its parsed initializer.                                                 *)
(***************************************************************************)
C7_VarInitDefault ==
    src.form = "var" =>
        /\ phase # "raised"
        /\ phase = "returned" =>
               /\ Len(tree) = 1
               /\ tree[1].kind = "VarExpr"
               /\ tree[1].var_names =
                      [i \in 1..Len(src.bindings) |->
                          <<src.bindings[i][1],
                            IF src.bindings[i][2].kind = "None"
                            THEN FloatExprAST(0)
                            ELSE src.bindings[i][2]>>]

\* `var b = <expr>, a in ..` was parsed: two bindings, the second without
\* an initializer
C7_Witness ==
    /\ phase = "returned"
    /\ src.form = "var"
    /\ Len(src.bindings) = 2
    /\ src.bindings[1][1] = "b" /\ src.bindings[1][2].kind = "BinaryExpr"
    /\ src.bindings[2][1] = "a" /\ src.bindings[2][2].kind = "None"
    /\ tree[1].var_names[2] = <<"a", FloatExprAST(0)>>

(***************************************************************************)
(* C8: for every keyword of the language (fn return extern if else for in  *)
(* binary unary var const), lexing an input that is exactly that lexeme    *)
(* yields exactly one token of the corresponding keyword kind followed by  *)
(* EOF; no keyword lexes as an Identifier.                                 *)
(***************************************************************************)
KeywordKind(lexeme) ==
    CASE lexeme = <<"f", "n">> -> tok_function
      [] lexeme = <<"r", "e", "t", "u", "r", "n">> -> tok_return
      [] lexeme = <<"e", "x", "t", "e", "r", "n">> -> tok_extern
      [] lexeme = <<"i", "f">> -> tok_if
      [] lexeme = <<"e", "l", "s", "e">> -> tok_else
      [] lexeme = <<"f", "o", "r">> -> tok_for
      [] lexeme = <<"i", "n">> -> tok_in
      [] lexeme = <<"b", "i", "n", "a", "r", "y">> -> tok_binary
      [] lexeme = <<"u", "n", "a", "r", "y">> -> tok_unary
      [] lexeme = <<"v", "a", "r">> -> tok_var
      [] lexeme = <<"c", "o", "n", "s", "t">> -> tok_const

C8_KeywordsLexAsKeywords ==
    (load.s \in Keywords /\ LexDone) =>
        /\ emitted[1].tok = KeywordKind(load.s)
        /\ emitted[2].tok = tok_eof

(***************************************************************************)
(* C9: Indent tokens arise only at line starts: whitespace inside a line   *)
(* never produces an Indent token, a blank line produces none, and a       *)
(* non-blank line that begins with n >= 1 spaces produces exactly one      *)
(* Indent(n) immediately before that line's first token.  Stated on the    *)
(* finished token sequence: it holds as many Indent tokens as the source   *)
(* has non-blank lines that begin with a space.                            *)
(***************************************************************************)
RECURSIVE IndentedLines(_, _, _, _)
IndentedLines(s, i, lead, atStart) ==
    IF i > Len(s) THEN 0
    ELSE IF s[i] = "\n" THEN IndentedLines(s, i + 1, 0, TRUE)
    ELSE IF atStart /\ s[i] = " " THEN IndentedLines(s, i + 1, lead + 1, TRUE)
    ELSE (IF atStart /\ lead >= 1 THEN 1 ELSE 0)
         + IndentedLines(s, i + 1, 0, FALSE)

C9_IndentPerIndentedLine ==
    (LexDone /\ \A i \in 1..Len(load.s) : load.s[i] # "#") =>
        Cardinality({i \in 1..Len(emitted) : emitted[i].name = "indent"})
            = IndentedLines(load.s, 1, 0, TRUE)

(***************************************************************************)
(* C11: lexing a finite input terminates.  Repeated token requests reach   *)
(* EOF after finitely many calls; once EOF has been returned every further *)
(* request returns EOF again, so EOF is nowhere but at the end of the      *)
(* token sequence; and Lexer.advance past the end reads the end-of-input   *)
(* marker again.                                                           *)
(***************************************************************************)
EofOnlyLast ==
    \A i \in 1..Len(emitted) : \A j \in 1..Len(emitted) :
        (emitted[i].tok = tok_eof /\ i < j) => emitted[j].tok = tok_eof

AdvancePastEnd ==
    LexDone =>
        advance([b |-> buffer, ret |-> "", num_str |-> <<>>] @@ lex).ret = EOF

NumChars == Digit \cup {"."}
OperatorChars == {"(", ")", "+", ":", "="}

\* where the token requested after `before` reads begins in the text s:
\* the lookahead, or the first character after the white space and the
\* comments (a comment runs from `#` to the end of its line)
RECURSIVE TokenStartFrom(_, _)
TokenStartFrom(s, from) ==
    IF from > Len(s) THEN Len(s) + 1
    ELSE IF s[from] \in Space THEN TokenStartFrom(s, from + 1)
    ELSE IF s[from] = "#"
         THEN TokenStartFrom(s,
                  CHOOSE j \in from..(Len(s) + 1) :
                      /\ \A i \in from..(j - 1) : s[i] \notin {"\n", "\r"}
                      /\ j = Len(s) + 1 \/ s[j] \in {"\n", "\r"})
    ELSE from

TokenStart(s, before) == TokenStartFrom(s, IF before = 0 THEN 1 ELSE before)

\* the maximal run of [0-9.] that begins at s[k]
MaximalRun(s, k) ==
    LET end == CHOOSE j \in k..(Len(s) + 1) :
                   /\ \A i \in k..(j - 1) : s[i] \in NumChars
                   /\ j = Len(s) + 1 \/ s[j] \notin NumChars
    IN  SubSeq(s, k, end - 1)

ValidFloatLiteral(run) ==
    /\ Cardinality({i \in 1..Len(run) : run[i] = "."}) <= 1
    /\ Cardinality({i \in 1..Len(run) : run[i] \in Digit}) >= 1

C12_NumericLexing ==
    \A i \in 1..Len(emitted) :
        LET k == TokenStart(load.s, emitted[i].before)
            c == IF k <= Len(load.s) THEN load.s[k] ELSE EOF
            run == MaximalRun(load.s, k)
        IN  /\ c \in NumChars =>
                   /\ emitted[i].num_str = run
                   /\ IF ValidFloatLiteral(run)
                      THEN /\ emitted[i].tok = tok_float_literal
                           /\ emitted[i].num_float = float(run)
                      ELSE emitted[i].name = "ValueError"
            /\ c \in OperatorChars =>
                   /\ emitted[i].tok = ord(c)
                   /\ emitted[i].name = c
            /\ emitted[i].name = "ValueError" => c \in NumChars

\* `. 1`: the lone `.` raised, the next request returned the literal 1.0
C12_Witness ==
    /\ load.s = <<".", " ", "1">>
    /\ Len(emitted) >= 2
    /\ emitted[1].name = "ValueError"
    /\ emitted[2].tok = tok_float_literal
    /\ emitted[2].num_float = [mant |-> 1, scale |-> 0]

(***************************************************************************)
(* C13: Parser.parse appends one node for each top-level item, in source   *)
(* order: a Function for a `fn`, a Prototype for an `extern`, the          *)
(* expression otherwise; a top-level `;` adds no node; the loop stops at   *)
(* EOF.  For  fn add_one(a): / a + 1 / add_one(1)  the nodes are the       *)
(* function and the call, in this order.                                   *)
(***************************************************************************)
C13_TopLevelNodes ==
    (src.form = "top" /\ src.ok /\ phase \in {"returned", "raised"}) =>
        /\ phase = "returned"
        /\ par.cur_tok.kind = "eof"
        /\ par.position = Len(src.tokens)
        /\ Module = ModuleAST("main", ItemNodes(src.items))

\* the module of the example, with a `;` that left no trace
C13_Witness ==
    /\ src.form = "top"
    /\ src.items = <<FnAddOne, Semicolon, CallAddOne>>
    /\ phase = "returned"
    /\ Module.nodes = FnAddOne.nodes \o CallAddOne.nodes

C15_ParseFailuresFatal ==
    (src.form = "top" /\ ~src.ok /\ phase \in {"returned", "raised"}) =>
        /\ phase = "raised"
        /\ par.err # ""
        /\ tree = ItemNodes(src.items)
        /\ par.err_location # NoLocation

(***************************************************************************)
(* C16: output path default.  Compiling the input files [f1, ...] with no  *)
(* output file given writes the object file to `<f1>.o`; with an output    *)
(* file given the object is written to exactly that path.                  *)
(***************************************************************************)
C16_OutputPathDefault ==
    (main.at = "done" /\ ~main.show_llvm_ir /\ main.input_files # <<>>) =>
        main.wrote = <<IF main.output_file = ""
                       THEN main.input_files[1] \o ".o"
                       ELSE main.output_file>>

(***************************************************************************)
(* C17: the source location attached to a token is the line and column at  *)
(* which its first character was read, and it stays fixed afterwards: no   *)
(* later reading of characters or tokens changes the location recorded     *)
(* for an earlier token.                                                   *)
(***************************************************************************)
\* the location after the first n characters of s were read, by the rule
\* of advance
RECURSIVE LocationAfter(_, _)
LocationAfter(s, n) ==
    IF n = 0 THEN [line |-> 0, col |-> 0]
    ELSE LET before == LocationAfter(s, n - 1)
         IN  IF s[n] \in {"\n", "\r"}
             THEN [line |-> before.line + 1, col |-> 0]
             ELSE [line |-> before.line, col |-> before.col + 1]

\* the location a recorded cur_loc stands for, the lexer being L: cur_loc
\* is the object lex_loc itself
LocationOf(cur_loc, L) ==
    IF cur_loc = "lex_loc" THEN L.lex_loc ELSE [line |-> -1, col |-> -1]

LocatedAtFirstChar ==
    \A i \in 1..Len(emitted) :
        LET k == TokenStart(load.s, emitted[i].before)
        IN  (emitted[i].name # "ValueError" /\ k <= Len(load.s)) =>
                LocationOf(emitted[i].cur_loc, lex) = LocationAfter(load.s, k)

LocationsStayFixed ==
    \A i \in 1..Len(emitted) :
        emitted[i].name # "ValueError" =>
            LocationOf(emitted[i].cur_loc, lex')
                = LocationOf(emitted[i].cur_loc, lex)

C17_TokenLocationFixed == []LocatedAtFirstChar /\ [][LocationsStayFixed]_vars

(***************************************************************************)
(* C18: a block that ends on a shallower Indent leaves that Indent for the *)
(* outer parser.  When the then- or else-block of an `if` ends on an       *)
(* Indent smaller than its own, the enclosing parse_block still sees that  *)
(* Indent: a statement that follows the `if` (with or without `else`) at   *)
(* the indentation of the enclosing block is appended to the enclosing     *)
(* block and is not cut off into a later top-level item.                   *)
(***************************************************************************)
\* the block that encloses the `if c:` of an if source
EnclosingBlock ==
    IF src.ctx = "fn" THEN tree[1].body ELSE tree[1].then_

C18_ShallowerIndentLeft ==
    (/\ phase = "returned" /\ src.form = "if" /\ src.ctx \in {"fn", "if"}
     /\ src.t > src.f /\ (src.hasElse => src.e > src.f)
     /\ src.trail = src.f) =>
        /\ Len(tree) = 1
        /\ Len(EnclosingBlock.nodes) = 2
        /\ EnclosingBlock.nodes[1].kind = "IfStmt"
        /\ EnclosingBlock.nodes[2] = VariableExprAST("d", "float")

(***************************************************************************)
(* C19: parse_block rejects a block that is not deeper.  Whenever the      *)
(* Indent(n) it starts on has n less than or equal to the indent of the    *)
(* enclosing block (equal and smaller alike), parse_block raises a parser  *)
(* error; it never returns an empty Block.                                 *)
(***************************************************************************)
C19_NonDeeperBlockRejected ==
    (/\ src.form = "if" /\ src.ctx \in {"fn", "if"}
     /\ 1 <= src.t /\ src.t <= src.f
     /\ phase \in {"returned", "raised"}) =>
        /\ phase = "raised"
        /\ par.err = "ParserException"

(***************************************************************************)
(* C20: parse_block requires an Indent token.  When the token after the    *)
(* `:` of an `if`, an `else` or a function prototype is not an Indent (a   *)
(* body written on the same line), parsing fails with a parse error;       *)
(* parse_block does not take the value of a float literal, an identifier   *)
(* or an operator as an indentation width and does not consume such a      *)
(* token as if it were the indentation.                                    *)
(***************************************************************************)
C20_BlockRequiresIndent ==
    (src.form = "sameline" /\ phase \in {"returned", "raised"}) =>
        /\ phase = "raised"
        /\ par.err \in {"ParserException", "Exception"}
        /\ par.position <= src.bodyAt

(***************************************************************************)
(* C21: parse_block restores the indent level.  On every normal return     *)
(* indent_level is what it was when parse_block was called, whatever the   *)
(* width of the indentation and the depth of nesting; so indent_level is   *)
(* 0 whenever the top-level loop of parse has control again, and it is     *)
(* never negative.                                                         *)
(***************************************************************************)
C21_IndentLevelRestored ==
    /\ par.indent_level >= 0
    /\ (phase \in {"loop", "returned"}) => par.indent_level = 0

(***************************************************************************)
(* C22: Parser.parse terminates on every finite token list.  Each turn of  *)
(* the top-level loop consumes at least one token or raises, and so does   *)
(* each turn of the loop of parse_block and each recursive parse_* call:   *)
(* parse returns a module or raises after finitely many steps.             *)
(***************************************************************************)
ParseEnded == phase \in {"returned", "raised"}

\* a turn of the top-level loop that leaves parse in the loop has moved
\* the cursor
TurnConsumes ==
    (phase = "loop" /\ phase' = "loop") => par'.position > par.position

C22_ParseTerminates == <>ParseEnded /\ [][TurnConsumes]_vars

\* `a ; 1`: three turns of the loop, two nodes, then EOF
C22_Witness ==
    /\ src.form = "any"
    /\ src.tokens = <<Ident("a"), Op(";"), Float(1), TokEOF>>
    /\ phase = "returned"
    /\ Len(tree) = 2

(***************************************************************************)
(* Modules given to the code generator: up to MaxGenItems top-level nodes  *)
(* of the shapes the parser builds, and the blocks without nodes an AST    *)
(* built by hand can hold.                                                 *)
(***************************************************************************)
One == FloatExprAST(1)
VarA == VariableExprAST("a", "float")
VarY == VariableExprAST("y", "float")
AssignA == BinaryExprAST("=", VarA, One)
ProtoF == PrototypeAST("f", "float", <<VarA>>)

GenCalls ==
    {CallExprAST("putchard", <<One>>), CallExprAST("putchard", <<>>),
     CallExprAST("f", <<One>>), CallExprAST("f", <<One, One>>)}

GenFunctions ==
    {FunctionAST(ProtoF, BlockAST(<<body>>)) :
        body \in {VarA, VarY, ReturnStmtAST(VarA)}}

GenIfs ==
    {IfStmtAST(One, BlockAST(<<One>>), else_) :
        else_ \in {BlockAST(<<One>>), BlockAST(<<>>)}}

GenFors ==
    {ForStmtAST("a", start, One, FloatExprAST(1), BlockAST(body)) :
        start \in {One, VarA},
        body \in {<<VarA>>, <<AssignA>>, <<VarY>>, <<>>}}

GenAssigns ==
    {AssignA, BinaryExprAST("=", One, One), BinaryExprAST("=", VarY, VarA)}

GenVars ==
    {VarExprAST(var_names, "float", VarA) :
        var_names \in {<<<<"a", One>>>>, <<<<"a", VarA>>>>,
                        <<<<"a", One>>, <<"a", VarA>>>>}}

GenItems ==
    {One, VarA, BinaryExprAST("+", One, One), ProtoF, ReturnStmtAST(One)}
        \cup GenCalls \cup GenFunctions \cup GenIfs \cup GenFors
        \cup GenAssigns \cup GenVars

GenModules(k) == {BlockAST(nodes) : nodes \in [1..k -> GenItems]}

\* ArxMain.compile / ObjectGenerator.evaluate: a new ObjectGenerator lowers
\* the module with emit_object
EmitObject(block_ast) ==
    /\ gen.visitor \in {"", "ObjectGenerator"}
    /\ gen.lowered + Len(block_ast.nodes) <= MaxGenItems
    /\ \E G \in {emit_object(NewObjectGenerator(gen.G.named_values),
                             block_ast)} :
           gen' = [visitor |-> "ObjectGenerator",
                   lowered |-> gen.lowered + Len(block_ast.nodes),
                   block_ast |-> block_ast,
                   G |-> G]
    /\ UNCHANGED <<ioVars, parVars, main>>

\* the nodes given to ObjectGeneratorVisitor: a loop or a function body is
\* one expression, as ForExprAST and FunctionAST of ast.py hold it
VisitorFors ==
    {ForStmtAST("a", start, One, FloatExprAST(1), body) :
        start \in {One, VarA}, body \in {VarA, VarY, AssignA}}

VisitorFunctions ==
    {FunctionAST(ProtoF, body) : body \in {VarA, VarY, ReturnStmtAST(VarA)}}

VisitorItems ==
    {One, VarA, AssignA, BinaryExprAST("+", One, One), ReturnStmtAST(One),
     CallExprAST("putchard", <<One>>), BlockAST(<<One>>),
     IfStmtAST(One, One, One),
     VarExprAST(<<<<"a", One>>, <<"a", VarA>>>>, "float", VarA)}
        \cup VisitorFors \cup VisitorFunctions

VisitorModules(k) == {BlockAST(nodes) : nodes \in [1..k -> VisitorItems]}

\* ObjectGenerator.evaluate of ast_to_object.py: a new visitor walks the
\* module with visit_tree
VisitTree(tree_ast, cast_bound) ==
    /\ gen.visitor \in {"", "ObjectGeneratorVisitor"}
    /\ gen.lowered + Len(tree_ast.nodes) <= MaxGenItems
    /\ \E V \in {visit_tree(NewObjectGeneratorVisitor(
                                gen.G.named_values, gen.G.function_protos,
                                cast_bound),
                            tree_ast)} :
           gen' = [visitor |-> "ObjectGeneratorVisitor",
                   lowered |-> gen.lowered + Len(tree_ast.nodes),
                   block_ast |-> tree_ast,
                   G |-> V]
    /\ UNCHANGED <<ioVars, parVars, main>>

GenInit ==
    /\ buffer = ArxBuffer_init /\ load = NoLoad /\ LexIdle /\ ParIdle

GenNext ==
    \/ \E k \in 1..MaxGenItems : \E block_ast \in GenModules(k) :
           EmitObject(block_ast)
    \/ \E k \in 1..MaxGenItems : \E tree_ast \in VisitorModules(k) :
           \E cast_bound \in BOOLEAN : VisitTree(tree_ast, cast_bound)

SpecGen == GenInit /\ [][GenNext]_vars

(***************************************************************************)
(* The visits of the last evaluate, in the order they ended.  Visit k ran  *)
(* within visit j when it ended before j and began after j began.          *)
(***************************************************************************)
Visits == gen.G.visits
Enclosing(k) == {j \in (k + 1)..Len(Visits) : Visits[j].before.visits < k}
\* the node of visit k is one that visit_block visited
BlockChild(k) ==
    \/ Enclosing(k) = {}
    \/ \E j \in Enclosing(k) :
           /\ \A m \in Enclosing(k) : j <= m
           /\ Visits[j].node.kind = "Block"
OneDeeper(before, after) ==
    /\ Len(after) = Len(before) + 1
    /\ SubSeq(after, 1, Len(before)) = before

\* C23: while emit_object walks a module every node visit_block visits
\* leaves exactly one new entry on result_stack, so no pop hits an empty
\* stack or takes a value of an enclosing visit, and a block that was
\* lowered leaves the stack exactly one entry deeper.
C23_ResultStackDiscipline ==
    gen.visitor = "ObjectGenerator" =>
        /\ gen.G.err # "IndexError: pop from empty list"
        /\ \A k \in 1..Len(Visits) :
               (Visits[k].err = "" /\
                (BlockChild(k) \/ Visits[k].node.kind = "Block")) =>
                   OneDeeper(Visits[k].before.result_stack,
                             Visits[k].after.result_stack)
        /\ gen.G.err = "" => Len(gen.G.result_stack) = 1

\* what get_function can find when visit k begins, and its parameter count
KnownFunction(k, f) ==
    f \in DOMAIN Visits[k].before.globals
        \cup DOMAIN Visits[k].before.function_protos
ParameterCount(k, f) ==
    IF f \in DOMAIN Visits[k].before.globals
    THEN Visits[k].before.globals[f].id
    ELSE Len(Visits[k].before.function_protos[f].args)
Constants(args) == [i \in 1..Len(args) |-> Constant("float", args[i].val)]

\* C24: a call of a builtin, an earlier definition or a registered
\* prototype with as many arguments as parameters is lowered to one call
\* on its arguments in order and pushes exactly one value; it is an error
\* exactly when the callee is unknown or the argument count differs.
C24_CallLowering ==
    \A k \in 1..Len(Visits) :
        (/\ gen.visitor = "ObjectGenerator"
         /\ Visits[k].node.kind = "CallExpr"
         /\ \A i \in 1..Len(Visits[k].node.args) :
                Visits[k].node.args[i].kind = "FloatExpr") =>
            LET call_ == Visits[k]
                f == call_.node.callee
                fits == /\ KnownFunction(k, f)
                        /\ ParameterCount(k, f) = Len(call_.node.args)
            IN  /\ fits <=> call_.err = ""
                /\ fits =>
                       /\ OneDeeper(call_.before.result_stack,
                                    call_.after.result_stack)
                       /\ call_.after.ir = call_.before.ir + 1
                       /\ gen.G.ir[call_.after.ir].op = "call"
                       /\ SubSeq(gen.G.ir[call_.after.ir].args, 2,
                                 Len(call_.node.args) + 1)
                              = Constants(call_.node.args)

Floats(block) ==
    \A i \in 1..Len(block.nodes) : block.nodes[i].kind = "FloatExpr"
\* the instructions visit k emitted into block bb end with a branch to merge
EndsWithBranch(k, bb, merge) ==
    \E i \in (Visits[k].before.ir + 1)..Visits[k].after.ir :
        /\ gen.G.ir[i].block = bb
        /\ gen.G.ir[i].op = "branch" /\ gen.G.ir[i].args = <<merge>>
        /\ \A j \in (i + 1)..Visits[k].after.ir : gen.G.ir[j].block # bb

\* C25: an if is lowered also when its else block has no node; the blocks
\* are appended in the order then, else, merge, each arm ends with a branch
\* to merge, and the value pushed is a phi with two incoming edges, from
\* the blocks current at the end of the two arms.
C25_IfLowering ==
    \A k \in 1..Len(Visits) :
        (/\ gen.visitor = "ObjectGenerator"
         /\ Visits[k].node.kind = "IfStmt"
         /\ Visits[k].node.cond.kind = "FloatExpr"
         /\ Floats(Visits[k].node.then_) /\ Floats(Visits[k].node.else_)) =>
            LET if_ == Visits[k]
                b == if_.before.blocks
            IN  /\ if_.err = ""
                /\ if_.after.blocks = b + 3
                /\ <<gen.G.blocks[b + 1].name, gen.G.blocks[b + 2].name,
                     gen.G.blocks[b + 3].name>> = <<"then", "else", "ifcont">>
                /\ EndsWithBranch(k, gen.G.blocks[b + 1], gen.G.blocks[b + 3])
                /\ EndsWithBranch(k, gen.G.blocks[b + 2], gen.G.blocks[b + 3])
                /\ gen.G.ir[if_.after.ir].op = "phi"
                /\ Len(gen.G.ir[if_.after.ir].args) = 4
                /\ gen.G.ir[if_.after.ir].args[2] = gen.G.blocks[b + 1]
                /\ gen.G.ir[if_.after.ir].args[4] = gen.G.blocks[b + 2]
                /\ if_.after.result_stack =
                       Append(if_.before.result_stack,
                              IRInstr(if_.after.ir, "iftmp"))

\* an initializer that can be lowered where visit k begins: a number, or a
\* variable bound there
PlainInit(k, init) ==
    \/ init.kind = "FloatExpr"
    \/ /\ init.kind = "VariableExpr"
       /\ init.name \in DOMAIN Visits[k].before.named_values
\* visit k emitted a load of the slot
LoadsSlot(k, slot) ==
    \E i \in (Visits[k].before.ir + 1)..Visits[k].after.ir :
        gen.G.ir[i].op = "load" /\ gen.G.ir[i].args = <<slot>>

\* C26: the initializers of a VarExpr are lowered, each before its own
\* binding is installed, so that the first `a = a` loads the outer a; and
\* after the VarExpr is lowered named_values is what it was before it,
\* also when a name is bound twice.
C26_VarScoping ==
    \A k \in 1..Len(Visits) :
        (/\ Visits[k].node.kind = "VarExpr"
         /\ \A i \in 1..Len(Visits[k].node.var_names) :
                PlainInit(k, Visits[k].node.var_names[i][2])) =>
            /\ Visits[k].err = ""
            /\ Visits[k].after.named_values = Visits[k].before.named_values
            /\ Visits[k].node.var_names[1][2].kind = "VariableExpr" =>
                   LoadsSlot(k, Visits[k].before.named_values[
                                    Visits[k].node.var_names[1][2].name])

\* the visits made directly by visit k
Children(k) ==
    {c \in (Visits[k].before.visits + 1)..(k - 1) :
        \A m \in Enclosing(c) : k <= m}
\* the slot visit_for_stmt makes for its variable: its first instruction
LoopSlot(k) == IRInstr(Visits[k].before.ir + 1, Visits[k].node.var_name)
BoundTo(c, name, slot) ==
    /\ name \in DOMAIN Visits[c].before.named_values
    /\ Visits[c].before.named_values[name] = slot
\* what the loop leaves as its value
LoopValue(k) ==
    IF gen.visitor = "ObjectGenerator"
    THEN /\ OneDeeper(Visits[k].before.result_stack,
                      Visits[k].after.result_stack)
         /\ Visits[k].after.result_stack[Len(Visits[k].after.result_stack)]
                = Constant("float", 0)
    ELSE Visits[k].after.result_val = Constant("float", 0)

\* C27: a for loop lowers start before its variable is bound, then body,
\* step and end in that order with the variable bound to the loop's slot;
\* whenever the visit returns without raising, the variable has the
\* binding it had before the loop (none if it had none) and the one value
\* left is the float constant 0.0.
C27_ForScoping ==
    \A k \in 1..Len(Visits) :
        (Visits[k].node.kind = "ForStmt" /\ Visits[k].err = "") =>
            LET for_ == Visits[k].node
            IN  /\ Visits[k].after.named_values = Visits[k].before.named_values
                /\ LoopValue(k)
                /\ \E c1, c2, c3, c4 \in Children(k) :
                       /\ c1 < c2 /\ c2 < c3 /\ c3 < c4
                       /\ Children(k) = {c1, c2, c3, c4}
                       /\ <<Visits[c1].node, Visits[c2].node,
                            Visits[c3].node, Visits[c4].node>>
                              = <<for_.start, for_.body, for_.step, for_.end>>
                       /\ Visits[c1].before.named_values
                              = Visits[k].before.named_values
                       /\ \A c \in {c2, c3, c4} :
                              BoundTo(c, for_.var_name, LoopSlot(k))

ParameterNames(proto) == {proto.args[i].name : i \in 1..Len(proto.args)}
\* the only node of a function body, or the body when it is an expression
BodyExpr(body) ==
    IF body.kind = "Block" /\ Len(body.nodes) = 1 THEN body.nodes[1] ELSE body
\* visit k ended in the unknown-variable error of its visitor
UnknownVariable(k) ==
    IF gen.visitor = "ObjectGenerator"
    THEN Visits[k].err = "Unknown variable name"
    ELSE Visits[k].err = "" /\ Visits[k].after.result_val = NoneValue

SignalsError(k) ==
    \/ Visits[k].err # ""
    \/ /\ gen.visitor = "ObjectGeneratorVisitor"
       /\ Visits[k].after.result_val = NoneValue
\* visit k left value as its single result
SingleResult(k, value) ==
    IF gen.visitor = "ObjectGenerator"
    THEN Visits[k].after.result_stack
             = Append(Visits[k].before.result_stack, value)
    ELSE Visits[k].after.result_val = value

\* C29: lowering `lhs = rhs` is an error unless lhs is a VariableExpr that
\* names a bound variable; otherwise rhs is lowered exactly once, exactly
\* one store of its value into the variable's slot is emitted and nothing
\* else for lhs, and the rhs value is the single result.
C29_AssignmentLowering ==
    \A k \in 1..Len(Visits) :
        (/\ Visits[k].node.kind = "BinaryExpr" /\ Visits[k].node.op = "="
         /\ Visits[k].node.rhs.kind = "FloatExpr") =>
            LET assign == Visits[k].node
                bound == /\ assign.lhs.kind = "VariableExpr"
                         /\ assign.lhs.name
                                \in DOMAIN Visits[k].before.named_values
                value == Constant("float", assign.rhs.val)
            IN  IF ~bound THEN SignalsError(k)
                ELSE /\ Visits[k].err = ""
                     /\ \E c \in Children(k) :
                            Children(k) = {c} /\ Visits[c].node = assign.rhs
                     /\ Visits[k].after.ir = Visits[k].before.ir + 1
                     /\ gen.G.ir[Visits[k].after.ir].op = "store"
                     /\ gen.G.ir[Visits[k].after.ir].args =
                            <<value,
                              Visits[k].before.named_values[assign.lhs.name]>>
                     /\ SingleResult(k, value)

\* C30: lowering `return e` lowers e and emits an IR return of its value.
C30_ReturnLowering ==
    \A k \in 1..Len(Visits) :
        (/\ Visits[k].node.kind = "ReturnStmt"
         /\ Visits[k].node.value.kind = "FloatExpr") =>
            /\ Visits[k].err = ""
            /\ \E c \in Children(k) : Visits[c].node = Visits[k].node.value
            /\ \E i \in (Visits[k].before.ir + 1)..Visits[k].after.ir :
                   /\ gen.G.ir[i].op = "ret"
                   /\ gen.G.ir[i].args =
                          <<Constant("float", Visits[k].node.value.val)>>

====
